---- MODULE Spec2Model ----
(***************************************************************************)
(* Canvas-to-Storage sync (src/main.py).                                   *)
(*                                                                         *)
(* The module models the synchronisation engine: change detection          *)
(* (has_file_changed, _should_regenerate_resource), page discovery and     *)
(* merge (process_course_pages), the per-resource handlers                 *)
(* (process_canvas_file, process_canvas_assignment, the module-item loop   *)
(* of main, the JSON exports) and the two storage backends.                *)
(*                                                                         *)
(* Time is an integer line.  A timestamp value is a record                 *)
(*   [k, aware, t, off]                                                    *)
(* k = "none"  : None / empty string (falsy in Python)                     *)
(* k = "bad"   : a non-empty string datetime.fromisoformat rejects         *)
(* k = "iso"   : an ISO 8601 string showing wall-clock t; aware = TRUE     *)
(*               when it carries an offset (or a trailing Z), off hours    *)
(*               east of UTC, so that its UTC instant is t - off           *)
(* k = "epoch" : a POSIX float (os.path.getmtime), instant t               *)
(***************************************************************************)
EXTENDS Integers, Sequences, FiniteSets, TLC

VARIABLES
    \* the function specifications: input, output, position
    fin, fout, fpc,
    \* configuration and source (fixed through a behaviour)
    cfg, src,
    \* destination store, scratch directory, summary
    dest, folders, scratch, scratch_dir, summary,
    \* main's position and locals
    pc, run, ci, ai, mi, ei, assignments, module_items, paths,
    processed_canvas_file_ids, new_items_synced,
    \* Drive's id allocator, the event log of the run, injected failures
    nextId, log, faults,
    \* the operations on Canvas and on the destination made so far in the run
    calls

funvars == <<fin, fout, fpc>>

mainvars ==
    <<cfg, src, dest, folders, scratch, scratch_dir, summary, pc, run, ci, ai, mi, ei,
      assignments, module_items, paths, processed_canvas_file_ids,
      new_items_synced, nextId, log, faults, calls>>

vars == <<funvars, mainvars>>

\* The sync is not running (the function specifications).
MainIdle ==
    /\ cfg = [STORAGE_TYPE |-> "none"]
    /\ src = <<>>
    /\ dest = {}
    /\ folders = {}
    /\ scratch = {}
    /\ scratch_dir = FALSE
    /\ summary = <<>>
    /\ pc = "idle"
    /\ run = 0
    /\ ci = 0
    /\ ai = 0
    /\ mi = 0
    /\ ei = 0
    /\ assignments = <<>>
    /\ module_items = <<>>
    /\ paths = <<>>
    /\ processed_canvas_file_ids = {}
    /\ new_items_synced = 0
    /\ nextId = 0
    /\ log = <<>>
    /\ faults = 0
    /\ calls = 0

\* No function specification is running (the sync specification).
FunIdle ==
    /\ fin = <<>>
    /\ fout = <<>>
    /\ fpc = "idle"

----------------------------------------------------------------------------
(* Configuration *)

\* cfg is the content of config.ini: whether the file is there, the keys it
\* has among those main reads without a default, and the text of
\* STORAGE_TYPE.
ConfigKeys ==
    {"API_URL", "API_KEY", "STORAGE_TYPE", "ROOT_FOLDER_NAME", "LOCAL_ROOT_DIR"}

StorageTypeTexts == {"local", "google_drive", "Local", "dropbox"}

\* str.lower on the texts above.
lower(text) == IF text = "Local" THEN "local" ELSE text

\* Line 2358.
storage_type == lower(cfg.STORAGE_TYPE)

\* The mutant validates nothing.
config_error_ignored == "none"

\* Lines 2349-2376: what main finds wrong with the configuration, in the
\* order it looks; a KeyError at the first key that is missing.
config_error ==
    IF ~cfg.file THEN "not found"
    ELSE IF "API_URL" \notin cfg.keys THEN "KeyError"
    ELSE IF "API_KEY" \notin cfg.keys THEN "KeyError"
    ELSE IF "STORAGE_TYPE" \notin cfg.keys THEN "KeyError"
    ELSE IF storage_type = "google_drive"
         THEN IF "ROOT_FOLDER_NAME" \notin cfg.keys THEN "KeyError" ELSE "none"
    ELSE IF storage_type = "local"
         THEN IF "LOCAL_ROOT_DIR" \notin cfg.keys THEN "KeyError" ELSE "none"
    ELSE "invalid"

----------------------------------------------------------------------------
(* Timestamp values *)

NoneTs == [k |-> "none", aware |-> FALSE, t |-> 0, off |-> 0]

BadTs == [k |-> "bad", aware |-> FALSE, t |-> 0, off |-> 0]

Iso(t, off, aware) == [k |-> "iso", aware |-> aware, t |-> t, off |-> off]

Epoch(t) == [k |-> "epoch", aware |-> FALSE, t |-> t, off |-> 0]

\* Python truthiness of a timestamp value: None and "" are falsy.
Truthy(v) == v.k # "none" /\ ~(v.k = "epoch" /\ v.t = 0)

\* A datetime object: wall-clock t, offset off when aware.  NoDt is None.
NoDt == [ok |-> FALSE, aware |-> FALSE, t |-> 0, off |-> 0]

Dt(t, off, aware) == [ok |-> TRUE, aware |-> aware, t |-> t, off |-> off]

\* The UTC instant of an aware datetime.
Instant(d) == d.t - d.off

----------------------------------------------------------------------------
(* Destination metadata, as the two metadata lookups return it *)

NoSize == -1

NoMeta == [present |-> FALSE, id |-> 0, size |-> 0, modified_time |-> NoneTs]

Meta(id, size, mt) == [present |-> TRUE, id |-> id, size |-> size, modified_time |-> mt]

----------------------------------------------------------------------------
(* Bounds of the value domains *)

\* Wall-clock readings range over 0..MaxT.
MaxT == 3

\* Offsets east of UTC range over 0..MaxOff.
MaxOff == 1

Times == 0..MaxT

Offsets == 0..MaxOff

\* What a source record can carry in a timestamp field.
SourceTs ==
    {NoneTs, BadTs}
        \cup {Iso(t, o, TRUE) : t \in Times, o \in Offsets}
        \cup {Iso(t, 0, FALSE) : t \in Times}

\* What Drive reports as modifiedTime: RFC 3339 in UTC.
DriveTs == {Iso(t, 0, TRUE) : t \in Times}

\* What os.path.getmtime reports.
LocalTs == {Epoch(t) : t \in Times \ {0}}

FileSizes == {100, 200}

----------------------------------------------------------------------------
(* Change detection: has_file_changed *)

\* datetime.fromisoformat(v.replace("Z", "+00:00")): what evaluating it does.
\* A float has no .replace (AttributeError); a string that is no ISO date
\* raises ValueError.
fromisoformat_outcome(v) ==
    IF v.k = "epoch" THEN "AttributeError"
    ELSE IF v.k = "iso" THEN "ok"
    ELSE "ValueError"

\* canvas_time > existing_time on two parsed datetimes: Python refuses to
\* order an offset-naive against an offset-aware datetime (TypeError).
datetime_gt(a, b) ==
    IF a.aware # b.aware THEN "TypeError"
    ELSE IF a.aware THEN (IF a.t - a.off > b.t - b.off THEN "True" ELSE "False")
    ELSE (IF a.t > b.t THEN "True" ELSE "False")

\* Returns "True" / "False", or the name of the exception that leaves the
\* function (only ValueError is caught, line 150).
has_file_changed(existing_metadata, canvas_size, canvas_updated_at) ==
    IF ~existing_metadata.present THEN "True"
    ELSE IF canvas_size # NoSize /\ existing_metadata.size # canvas_size THEN "True"
    ELSE IF Truthy(canvas_updated_at) /\ Truthy(existing_metadata.modified_time) THEN
        LET c == fromisoformat_outcome(canvas_updated_at)
            e == fromisoformat_outcome(existing_metadata.modified_time)
        IN  IF c = "ValueError" THEN "False"
            ELSE IF c # "ok" THEN c
            ELSE IF e = "ValueError" THEN "False"
            ELSE IF e # "ok" THEN e
            ELSE datetime_gt(canvas_updated_at, existing_metadata.modified_time)
    ELSE "False"

\* The metadata records the two lookups can return for an existing artifact.
ExistingMeta ==
    {NoMeta}
        \cup {Meta(1, sz, mt) : sz \in FileSizes, mt \in DriveTs}
        \cup {Meta(0, sz, mt) : sz \in FileSizes, mt \in LocalTs}

HFCInit ==
    /\ fin \in [existing : ExistingMeta,
                size : FileSizes \cup {NoSize},
                updated_at : SourceTs]
    /\ fout = "pending"
    /\ fpc = "in"
    /\ MainIdle

HFCApply ==
    /\ fpc = "in"
    /\ fout' = has_file_changed(fin.existing, fin.size, fin.updated_at)
    /\ fpc' = "out"
    /\ UNCHANGED <<fin, mainvars>>

HFCNext == HFCApply

SpecHFC == HFCInit /\ [][HFCNext]_vars

\* The UTC instant a timestamp value denotes (naive readings taken as UTC).
UtcOf(v) == IF v.k = "iso" /\ v.aware THEN v.t - v.off ELSE v.t

Parses(v) == v.k = "iso"

\* The decision the ordered rules of the change detector give.
RuleDecision(existing, size, updated_at) ==
    IF ~existing.present THEN "True"
    ELSE IF size # NoSize /\ size # existing.size THEN "True"
    ELSE IF Parses(updated_at) /\ UtcOf(updated_at) > UtcOf(existing.modified_time)
         THEN "True"
    ELSE "False"

\* C7: has_file_changed applies the rules in order: absent -> changed; size
\* provided and different -> changed; updated_at provided, parsing and strictly
\* later than existing.modified_time -> changed; otherwise unchanged.
C7_RulesInOrder ==
    fpc = "out" => fout = RuleDecision(fin.existing, fin.size, fin.updated_at)

\* C8: with an existing artifact and a source timestamp that fails to parse,
\* the decision is "changed" when no size signal is available, and Skip when
\* the size signal is available and equal.
C8_UnparseableTimestamp ==
    (fpc = "out" /\ fin.existing.present /\ fin.updated_at.k = "bad") =>
        /\ (fin.size = NoSize => fout = "True")
        /\ (fin.size # NoSize /\ fin.size = fin.existing.size => fout = "False")

\* C32: has_file_changed is total over the metadata the two backends
\* produce: for every existing-metadata record, source size and source
\* timestamp it returns a decision and never raises.
C32_HasFileChangedIsTotal == fpc = "out" => fout \in {"True", "False"}

----------------------------------------------------------------------------
(* Change detection for aggregate artifacts *)

\* _parse_iso_utc: a timezone-aware datetime in UTC, or None.  A naive reading
\* is taken as UTC; an aware one is converted (astimezone).
_parse_iso_utc(dt_str) ==
    IF dt_str.k # "iso" THEN NoDt
    ELSE IF dt_str.aware THEN Dt(dt_str.t - dt_str.off, 0, TRUE)
    ELSE Dt(dt_str.t, 0, TRUE)

\* _to_utc_datetime: ISO strings and POSIX timestamps alike.
_to_utc_datetime(value) ==
    IF value.k = "none" THEN NoDt
    ELSE IF value.k = "epoch" THEN Dt(value.t, 0, TRUE)
    ELSE _parse_iso_utc(value)

\* datetime.isoformat() of a UTC datetime.
isoformat(d) == Iso(d.t, d.off, TRUE)

RECURSIVE SeqMaxDt(_)
\* max() over a non-empty list of aware datetimes (the first maximal one).
SeqMaxDt(ds) ==
    IF Len(ds) = 1 THEN ds[1]
    ELSE LET m == SeqMaxDt(Tail(ds))
         IN  IF Instant(m) > Instant(ds[1]) THEN m ELSE ds[1]

\* _max_iso_datetime: the newest parseable value as an ISO string, or None.
_max_iso_datetime(values) ==
    LET truthy == SelectSeq(values, Truthy)
        parsed == [i \in 1..Len(truthy) |-> _parse_iso_utc(truthy[i])]
        timestamps == SelectSeq(parsed, LAMBDA d : d.ok)
    IN  IF Len(timestamps) = 0 THEN NoneTs
        ELSE isoformat(SeqMaxDt(timestamps))

RECURSIVE CollectValues(_, _)
\* The loop of _max_timestamp_from_items: every truthy value of every listed
\* key of every item, item by item and key by key.  An item is the tuple of
\* its values under the listed keys (NoneTs for a missing key).
CollectValues(items, nkeys) ==
    IF Len(items) = 0 THEN <<>>
    ELSE SelectSeq([k \in 1..nkeys |-> items[1][k]], Truthy)
             \o CollectValues(Tail(items), nkeys)

_max_timestamp_from_items(items, nkeys) ==
    IF Len(items) = 0 THEN NoneTs
    ELSE _max_iso_datetime(CollectValues(items, nkeys))

\* The mutant compares with < where the code compares with <=.
_should_regenerate_resource_lt(existing_metadata, newest_iso) ==
    IF ~existing_metadata.present THEN TRUE
    ELSE IF Truthy(newest_iso) THEN
        LET existing_dt == _to_utc_datetime(existing_metadata.modified_time)
            newest_dt == _parse_iso_utc(newest_iso)
        IN  ~(existing_dt.ok /\ newest_dt.ok /\ Instant(newest_dt) < Instant(existing_dt))
    ELSE TRUE

_should_regenerate_resource(existing_metadata, newest_iso) ==
    IF ~existing_metadata.present THEN TRUE
    ELSE IF Truthy(newest_iso) THEN
        LET existing_dt == _to_utc_datetime(existing_metadata.modified_time)
            newest_dt == _parse_iso_utc(newest_iso)
        IN  ~(existing_dt.ok /\ newest_dt.ok /\ Instant(newest_dt) <= Instant(existing_dt))
    ELSE TRUE

\* process_course_pages, lines 1495-1510: the newest updated_at over the pages.
\* updated_ats is the list of the pages' updated_at values.
max_updated_at_iso(updated_ats) ==
    LET page_times == SelectSeq(updated_ats, Truthy)
        dts0 == [i \in 1..Len(page_times) |-> _parse_iso_utc(page_times[i])]
        dts == SelectSeq(dts0, LAMBDA d : d.ok)
    IN  IF Len(dts) = 0 THEN NoneTs ELSE isoformat(SeqMaxDt(dts))

\* process_course_pages, lines 1522-1530.
should_rebuild(existing_metadata, newest_iso) ==
    IF existing_metadata.present /\ Truthy(newest_iso) THEN
        LET existing_dt == _to_utc_datetime(existing_metadata.modified_time)
            newest_page_dt == _parse_iso_utc(newest_iso)
        IN  ~(existing_dt.ok /\ newest_page_dt.ok
                /\ Instant(newest_page_dt) <= Instant(existing_dt))
    ELSE TRUE

\* At most MaxItems constituent records per aggregate.
MaxItems == 2

\* The keys a record is read under (those of process_course_quizzes).
AggKeyNames == <<"updated_at", "published_at">>

AggKeys == Len(AggKeyNames)

\* Values of the first key, and of the second.
AggTs1 ==
    {NoneTs, BadTs}
        \cup {Iso(t, o, TRUE) : t \in {1, MaxT}, o \in Offsets}
        \cup {Iso(t, 0, FALSE) : t \in {1, MaxT}}

AggTs2 == {NoneTs, Iso(MaxT, 0, TRUE)}

AggItems == {<<a, b>> : a \in AggTs1, b \in AggTs2}

AggItemLists == UNION {[1..n -> AggItems] : n \in 1..MaxItems}

AggExisting ==
    {NoMeta, Meta(1, 100, NoneTs)}
        \cup {Meta(1, 100, mt) : mt \in DriveTs}
        \cup {Meta(0, 100, mt) : mt \in LocalTs}

AggInit ==
    /\ fin \in [existing : AggExisting, items : AggItemLists]
    /\ fout = [json |-> TRUE, pages |-> TRUE]
    /\ fpc = "in"
    /\ MainIdle

\* A JSON export decides on every listed key; the merged pages PDF on the
\* pages' updated_at (the first key here).
AggApply ==
    /\ fpc = "in"
    /\ fout' = [json |-> _should_regenerate_resource(
                            fin.existing,
                            _max_timestamp_from_items(fin.items, AggKeys)),
                pages |-> should_rebuild(
                            fin.existing,
                            max_updated_at_iso(
                                [i \in 1..Len(fin.items) |-> fin.items[i][1]]))]
    /\ fpc' = "out"
    /\ UNCHANGED <<fin, mainvars>>

AggNext == AggApply

SpecAgg == AggInit /\ [][AggNext]_vars

\* The UTC instants of the parseable values among a set of values.
ParsedInstants(values) == {UtcOf(v) : v \in {w \in values : Parses(w)}}

\* Skip is allowed exactly when the artifact exists, its modified time
\* converts, some constituent timestamp parses and none is later than it.
SkipAllowed(existing, values) ==
    /\ existing.present
    /\ existing.modified_time.k \in {"iso", "epoch"}
    /\ ParsedInstants(values) # {}
    /\ \A i \in ParsedInstants(values) : i <= UtcOf(existing.modified_time)

\* C9: an aggregate artifact (merged pages PDF, JSON export) is skipped if and
\* only if it exists, at least one constituent timestamp parses, the existing
\* modified time converts, and the newest parsed constituent timestamp is not
\* later than the existing modified time; otherwise it is regenerated.
C9_AggregateSkipIff ==
    fpc = "out" =>
        /\ ~fout.json <=>
              SkipAllowed(fin.existing,
                  {fin.items[i][k] : i \in 1..Len(fin.items), k \in 1..AggKeys})
        /\ ~fout.pages <=>
              SkipAllowed(fin.existing,
                  {fin.items[i][1] : i \in 1..Len(fin.items)})

\* An aggregate skipped although one of its records carries an unparseable
\* value and its newest timestamp equals the existing modified time.
C9_Witness ==
    /\ fpc = "out"
    /\ ~fout.json
    /\ ~fout.pages
    /\ Len(fin.items) = 2
    /\ \E i \in 1..2 : fin.items[i][1] = BadTs
    /\ \E i \in 1..2 : fin.items[i][2] = Iso(MaxT, 0, TRUE)
    /\ UtcOf(fin.existing.modified_time) = MaxT

----------------------------------------------------------------------------
(* Page discovery and merge: process_course_pages, lines 1429-1484 *)

\* A name (a slug, a title, a filename) is a sequence of characters; <<>> is
\* the empty string, and None.
\* a or b or c over strings: the first non-empty one (or c).
FirstTruthy(a, b, c) == IF a # <<>> THEN a ELSE IF b # <<>> THEN b ELSE c

\* A page record.  body is the list of Canvas file ids its HTML links to;
\* route tells which discovery route built the record (not a field of the
\* program's dict: the two routes build distinct objects).
Page(url, page_url, title, updated_at, body, route) ==
    [url |-> url, page_url |-> page_url, title |-> title,
     updated_at |-> updated_at, body |-> body, route |-> route]

\* pages_map is an insertion-ordered dict: a sequence of [key, val] entries.
DictHas(map, key) == \E i \in 1..Len(map) : map[i].key = key

DictGet(map, key) == map[CHOOSE i \in 1..Len(map) : map[i].key = key].val

\* map[key] = val: an existing key keeps its place.
DictSet(map, key, val) ==
    IF DictHas(map, key)
    THEN [i \in 1..Len(map) |->
            IF map[i].key = key THEN [key |-> key, val |-> val] ELSE map[i]]
    ELSE Append(map, [key |-> key, val |-> val])

RECURSIVE add_direct_pages(_, _)
\* Lines 1432-1435: pages of the direct listing, in listing order.
add_direct_pages(pages_map, pages_from_api) ==
    IF Len(pages_from_api) = 0 THEN pages_map
    ELSE LET page == pages_from_api[1]
             slug == FirstTruthy(page.url, page.page_url, page.title)
         IN  add_direct_pages(
                 IF slug # <<>> THEN DictSet(pages_map, slug, page) ELSE pages_map,
                 Tail(pages_from_api))

\* The record lines 1470-1476 build from the fetched page details.
module_page_record(pd) == Page(pd.url, <<>>, pd.title, pd.updated_at, pd.body, "module")

\* The mutant lets the more recently updated record win.
add_module_page_newest(pages_map, item) ==
    IF ~item.fetch_ok THEN pages_map
    ELSE LET pd == item.pd
             slug == FirstTruthy(pd.url, item.page_url, pd.title)
         IN  IF slug # <<>>
                  /\ (~DictHas(pages_map, slug)
                        \/ UtcOf(pd.updated_at) > UtcOf(DictGet(pages_map, slug).updated_at))
             THEN DictSet(pages_map, slug, module_page_record(pd))
             ELSE pages_map

\* Lines 1459-1478 for one module item of type Page with a url: fetch the page
\* details (a failed request skips the item) and add it unless its slug is a key.
add_module_page(pages_map, item) ==
    IF ~item.fetch_ok THEN pages_map
    ELSE LET pd == item.pd
             slug == FirstTruthy(pd.url, item.page_url, pd.title)
         IN  IF slug # <<>> /\ ~DictHas(pages_map, slug)
             THEN DictSet(pages_map, slug, module_page_record(pd))
             ELSE pages_map

RECURSIVE add_module_pages(_, _)
\* Lines 1448-1478: the module items in module and item order.
add_module_pages(pages_map, page_items) ==
    IF Len(page_items) = 0 THEN pages_map
    ELSE add_module_pages(add_module_page(pages_map, page_items[1]),
                          Tail(page_items))

\* Lines 1429-1481.
merge_pages(pages_from_api, page_items) ==
    add_module_pages(add_direct_pages(<<>>, pages_from_api), page_items)

\* Listing lengths.
MaxListed == 2

MaxModulePages == 2

Slugs == {<<>>, <<"a">>, <<"b">>}

MergeTs == {Iso(1, 0, TRUE), Iso(2, 0, TRUE)}

\* The direct listing's records carry the older timestamp, so that a record
\* found via a module can be the newer one.
DirectPages ==
    {Page(u, <<>>, t, Iso(1, 0, TRUE), <<>>, "direct") : u \in Slugs, t \in {<<>>, <<"a">>}}

ModulePageItems ==
    {[fetch_ok |-> TRUE, page_url |-> pu,
      pd |-> Page(u, <<>>, <<"a">>, ts, <<>>, "fetched")] :
        pu \in {<<>>, <<"b">>}, u \in Slugs, ts \in MergeTs}
        \cup {[fetch_ok |-> FALSE, page_url |-> <<"b">>,
               pd |-> Page(<<"b">>, <<>>, <<"a">>, Iso(2, 0, TRUE), <<>>, "fetched")]}

MergeInit ==
    /\ fin \in [direct : UNION {[1..n -> DirectPages] : n \in 0..MaxListed},
                items : UNION {[1..n -> ModulePageItems] : n \in 0..MaxModulePages}]
    /\ fout = <<>>
    /\ fpc = "in"
    /\ MainIdle

MergeApply ==
    /\ fpc = "in"
    /\ fout' = merge_pages(fin.direct, fin.items)
    /\ fpc' = "out"
    /\ UNCHANGED <<fin, mainvars>>

MergeNext == MergeApply

SpecMerge == MergeInit /\ [][MergeNext]_vars

DirectSlug(page) == FirstTruthy(page.url, page.page_url, page.title)

ModuleSlug(item) == FirstTruthy(item.pd.url, item.page_url, item.pd.title)

\* The indexes of the direct-listing pages filed under slug s.
DirectAt(s) == {i \in 1..Len(fin.direct) : DirectSlug(fin.direct[i]) = s}

\* The indexes of the fetched module pages filed under slug s.
ModuleAt(s) == {i \in 1..Len(fin.items) : fin.items[i].fetch_ok /\ ModuleSlug(fin.items[i]) = s}

SetMax(S) == CHOOSE m \in S : \A x \in S : x <= m

SetMin(S) == CHOOSE m \in S : \A x \in S : m <= x

\* C10: a slug present both in the direct listing and via a module item maps
\* to the direct-listing record, whichever record is the newer; a page found
\* via a module is added only when its slug is not yet a key of the map.
C10_DirectListingWins ==
    fpc = "out" =>
        \A s \in Slugs \ {<<>>} :
            /\ DirectAt(s) # {} =>
                  /\ DictHas(fout, s)
                  /\ DictGet(fout, s) = fin.direct[SetMax(DirectAt(s))]
            /\ (DirectAt(s) = {} /\ ModuleAt(s) # {}) =>
                  /\ DictHas(fout, s)
                  /\ DictGet(fout, s) =
                        module_page_record(fin.items[SetMin(ModuleAt(s))].pd)
            /\ (DirectAt(s) = {} /\ ModuleAt(s) = {}) => ~DictHas(fout, s)

\* A slug listed directly and found via a module whose record is the newer
\* one, and another slug that only a module item yields.
C10_Witness ==
    /\ fpc = "out"
    /\ \E s \in Slugs \ {<<>>} :
          /\ DirectAt(s) # {}
          /\ \E i \in ModuleAt(s) :
                UtcOf(fin.items[i].pd.updated_at) > UtcOf(DictGet(fout, s).updated_at)
          /\ DictGet(fout, s).route = "direct"
    /\ \E s \in Slugs \ {<<>>} : DictHas(fout, s) /\ DictGet(fout, s).route = "module"

(***************************************************************************)
(* The sync run (main and the handlers it calls).                          *)
(*                                                                         *)
(* A handler is an operator over a machine state st: the destination, the  *)
(* scratch directory, the summary, the processed-id set, the event log and *)
(* the bookkeeping of the environment (st.n counts the environment         *)
(* operations the handler has made; operation k fails iff k \in st.F).     *)
(* An environment operation is a destination lookup, a Drive folder        *)
(* lookup/creation, a Canvas request, a download, a render or an upsert.   *)
(* The local file system is taken as reliable where the code has no        *)
(* handler for its failure (os.makedirs, os.remove, open).                 *)
(***************************************************************************)

MaxRuns == 2
MaxFaults == 1
\* No handler of the modelled source makes more environment operations.
MaxOps == 14

\* The clock: source stamps lie in Times, run r executes at MaxT + r, and a
\* stamp at FutureT lies after every run.
Now == MaxT + run
FutureT == MaxT + MaxRuns + 1

\* Lines 85-87: the characters of [\\/*?:"<>|] are removed, then strip().
IllegalChars == {"\\", "/", "*", "?", ":", "\"", "<", ">", "|"}
Whitespace == {" ", "\t", "\n"}
IsLegalChar(ch) == ch \notin IllegalChars

RECURSIVE lstrip(_)
lstrip(name) ==
    IF Len(name) > 0 /\ name[1] \in Whitespace THEN lstrip(Tail(name)) ELSE name

RECURSIVE rstrip(_)
rstrip(name) ==
    IF Len(name) > 0 /\ name[Len(name)] \in Whitespace
    THEN rstrip(SubSeq(name, 1, Len(name) - 1)) ELSE name

\* The mutant trims first and removes afterwards.
sanitize_filename_trim_first(name) == SelectSeq(rstrip(lstrip(name)), IsLegalChar)

sanitize_filename(name) == rstrip(lstrip(SelectSeq(name, IsLegalChar)))

\* An artifact of the run: a course file, an assignment PDF, a module page
\* PDF, the merged pages PDF, a JSON export.
Art(course, kind, id) == [course |-> course, kind |-> kind, id |-> id]

\* The event log: what was done (op) for which artifact (art) with what
\* result (res) in which run, and, for a decision or an upsert, the folder
\* and the filename in the destination (at).
EmitAt(st, op, art, res, at) ==
    [st EXCEPT !.log = Append(@, [op |-> op, art |-> art, res |-> res,
                                  run |-> run, at |-> at])]

Emit(st, op, art, res) == EmitAt(st, op, art, res, <<>>)

Decide(st, art, at, res) == EmitAt(st, "decide", art, res, at)

Fails(st) == (st.n + 1) \in st.F
Tick(st) == [st EXCEPT !.n = @ + 1]

\* The state after a Canvas request made for art (a listing, the details of
\* an item or of a linked file): a failed one is in the log.
Request(st, art) ==
    IF Fails(st) THEN Emit(Tick(st), "request", art, "fail") ELSE Tick(st)

RECURSIVE Requests(_, _)
\* Requests made one after the other.
Requests(st, arts) ==
    IF Len(arts) = 0 THEN st ELSE Requests(Request(st, Head(arts)), Tail(arts))

\* The stamp the backend gives an artifact written now (lines 108, 124).
WrittenStamp ==
    IF storage_type = "google_drive" THEN Iso(Now, 0, TRUE) ELSE Epoch(Now)

Matches(st, folder, filename) ==
    {d \in st.dest : d.folder = folder /\ d.name = filename}

\* Lines 90-128.  Every call site passes a folder and a filename that are
\* set, so the lookup is always made.  Drive may hold several files of one
\* name in a folder and returns them in an order of its choosing: st.newest
\* chooses which one comes first.
get_existing_file_metadata(st, folder, filename) ==
    LET found == Matches(st, folder, filename)
    IN  IF Fails(st) \/ found = {} THEN NoMeta
        ELSE LET f == CHOOSE d \in found :
                          \A e \in found :
                              IF st.newest THEN e.id <= d.id ELSE d.id <= e.id
             IN  Meta(f.id, f.size, f.modified_time)

ScratchHas(st, name) == \E x \in st.scratch : x.name = name
ScratchSize(st, name) == (CHOOSE x \in st.scratch : x.name = name).size
ScratchPut(st, name, size) ==
    [st EXCEPT !.scratch = {x \in @ : x.name # name}
                              \cup {[name |-> name, size |-> size]}]
ScratchRemove(st, name) ==
    [st EXCEPT !.scratch = {x \in @ : x.name # name}]

\* The mutant uploads a new file whether or not an id is given.
upload_file_to_drive_anew(st, local_name, drive_filename, folder, existing, art) ==
    IF ~ScratchHas(st, local_name) \/ Fails(st)
    THEN [EmitAt(Tick(st), "upsert", art, "fail", <<folder, drive_filename>>)
             EXCEPT !.ok = FALSE]
    ELSE [EmitAt(Tick(st), "upsert", art, "ok", <<folder, drive_filename>>)
             EXCEPT !.ok = TRUE,
                    !.nextId = @ + 1,
                    !.dest = @ \cup {[folder |-> folder, name |-> drive_filename,
                                      id |-> st.nextId,
                                      size |-> ScratchSize(st, local_name),
                                      modified_time |-> WrittenStamp]}]

\* Lines 658-689.  The local file stays in the scratch directory.
upload_file_to_drive(st, local_name, drive_filename, folder, existing, art) ==
    IF ~ScratchHas(st, local_name)
    THEN [EmitAt(st, "upsert", art, "fail", <<folder, drive_filename>>) EXCEPT !.ok = FALSE]
    ELSE IF Fails(st)
    THEN [EmitAt(Tick(st), "upsert", art, "fail", <<folder, drive_filename>>)
             EXCEPT !.ok = FALSE]
    ELSE LET s1 == EmitAt(Tick(st), "upsert", art, "ok", <<folder, drive_filename>>)
             size == ScratchSize(st, local_name)
         IN  IF existing.present
             THEN [s1 EXCEPT !.ok = TRUE,
                             !.dest = {IF d.id = existing.id
                                       THEN [d EXCEPT !.size = size,
                                                      !.modified_time = WrittenStamp]
                                       ELSE d : d \in @}]
             ELSE [s1 EXCEPT !.ok = TRUE,
                             !.nextId = @ + 1,
                             !.dest = @ \cup {[folder |-> folder,
                                               name |-> drive_filename,
                                               id |-> st.nextId,
                                               size |-> size,
                                               modified_time |-> WrittenStamp]}]

\* Lines 723-734: shutil.move replaces the destination file.
save_file_locally(st, local_name, filename, folder, art) ==
    IF ~ScratchHas(st, local_name)
    THEN [EmitAt(st, "upsert", art, "fail", <<folder, filename>>) EXCEPT !.ok = FALSE]
    ELSE IF Fails(st)
    THEN [EmitAt(Tick(st), "upsert", art, "fail", <<folder, filename>>)
             EXCEPT !.ok = FALSE]
    ELSE LET s1 == ScratchRemove(EmitAt(Tick(st), "upsert", art, "ok", <<folder, filename>>), local_name)
         IN  [s1 EXCEPT !.ok = TRUE,
                        !.dest = (@ \ Matches(st, folder, filename))
                                 \cup {[folder |-> folder,
                                        name |-> filename,
                                        id |-> 0,
                                        size |-> ScratchSize(st, local_name),
                                        modified_time |-> WrittenStamp]}]

\* The upsert of either backend, as every handler branches on storage_type.
upsert(st, local_name, filename, folder, existing, art) ==
    IF storage_type = "google_drive"
    THEN upload_file_to_drive(st, local_name, filename, folder, existing, art)
    ELSE save_file_locally(st, local_name, filename, folder, art)

\* Lines 770-785.  A failure before the file is opened leaves nothing, one
\* while the body streams leaves a partial file (st.partial).
download_canvas_file(st, file_info, local_name, art) ==
    IF Fails(st)
    THEN LET s1 == [Emit(Tick(st), "download", art, "fail") EXCEPT !.ok = FALSE]
         IN  IF st.partial THEN ScratchPut(s1, local_name, 0) ELSE s1
    ELSE [ScratchPut(Emit(Tick(st), "download", art, "ok"), local_name, file_info.size)
             EXCEPT !.ok = TRUE]

\* The mutant records nothing.
add_file_dropped(st, course_name, dest_label, filename, action) == st

\* Lines 61-66.
add_file(st, course_name, dest_label, filename, action) ==
    IF course_name = <<>> \/ dest_label = <<>> \/ filename = <<>> THEN st
    ELSE [st EXCEPT !.summary = Append(@, [course_name |-> course_name,
                                           dest_label |-> dest_label,
                                           filename |-> filename,
                                           action |-> action])]

Raised(outcome) == outcome \in {"AttributeError", "TypeError"}

\* The mutant never records an id.
mark_processed_never(st, file_id) == st

\* Line 819: processed_canvas_file_ids.add(file_id).
mark_processed(st, file_id) == [st EXCEPT !.processed = @ \cup {file_id}]

\* The mutant carries the set over to the next course.
fresh_processed_shared(st) == st

\* Line 2552: processed_canvas_file_ids = set(), once per course.
fresh_processed(st) == [st EXCEPT !.processed = {}]

\* Lines 791-869.  course is the index of the course being traversed.
process_canvas_file(st, file_info, folder, course, course_name, dest_label) ==
    LET art == Art(course, "file", file_info.id)
        filename == file_info.display_name
    IN  IF file_info.id = 0 \/ filename = <<>> \/ ~file_info.url
           \/ file_info.id \in st.processed
        THEN [EmitAt(st, "call", art, "return", <<folder, filename>>) EXCEPT !.ret = 0]
        ELSE
        LET s1 == mark_processed(EmitAt(st, "call", art, "process",
                                        <<folder, filename>>),
                                 file_info.id)
            existing_metadata == get_existing_file_metadata(s1, folder, filename)
            s2 == Emit(Tick(s1), "lookup", art,
                       IF existing_metadata.present THEN "found" ELSE "none")
            changed == has_file_changed(existing_metadata, file_info.size,
                                        file_info.updated_at)
        IN  IF Raised(changed)
            THEN [Decide(s2, art, <<folder, filename>>, "raise") EXCEPT !.exc = changed]
            ELSE IF changed = "False"
            THEN [Decide(s2, art, <<folder, filename>>, "Skip") EXCEPT !.ret = 0]
            ELSE
            LET s3 == Decide(s2, art, <<folder, filename>>,
                           IF existing_metadata.present THEN "Update" ELSE "Create")
                s4 == download_canvas_file(s3, file_info, filename, art)
            IN  IF ~s4.ok THEN [s4 EXCEPT !.ret = 0]
                ELSE
                LET s5 == upsert(s4, filename, filename, folder, existing_metadata, art)
                IN  IF s5.ok
                    THEN [add_file(s5, course_name, dest_label, filename,
                                   IF existing_metadata.present
                                   THEN "updated" ELSE "created")
                             EXCEPT !.ret = 1]
                    ELSE [ScratchRemove(s5, filename) EXCEPT !.ret = 0]

\* Lines 584-611: the credentials are read or refreshed and the service is
\* built; None (ok = FALSE) without credentials or on an HttpError.
get_drive_service(st) ==
    IF Fails(st) THEN [Tick(st) EXCEPT !.ok = FALSE] ELSE [Tick(st) EXCEPT !.ok = TRUE]

\* Lines 614-639: one try around the lookup and the creation; an HttpError
\* gives None (ok = FALSE).  A folder is named by its path from the root.
get_or_create_folder(st, path) ==
    IF Fails(st) THEN [Tick(st) EXCEPT !.ok = FALSE]
    ELSE [Tick(st) EXCEPT !.ok = TRUE, !.folders = @ \cup {path}]

\* Lines 695-705.
get_or_create_local_folder(st, path) ==
    [st EXCEPT !.ok = TRUE, !.folders = @ \cup {path}]

\* The folder of either backend, as every call site branches on storage_type.
storage_folder(st, path) ==
    IF storage_type = "google_drive"
    THEN get_or_create_folder(st, path)
    ELSE get_or_create_local_folder(st, path)

PdfName(safe_name) == safe_name \o <<".pdf">>

\* session.get + raise_for_status + json of /api/v1/files/{id}: fails or
\* gives the file's record.
FileInfoOf(fid) == src.files[fid]

RECURSIVE assignment_links(_, _, _, _, _, _)
\* Lines 1200-1234: the links of the description in document order.  Only a
\* RequestException is caught, per link.
assignment_links(st, links, folder, course, course_name, dest_label) ==
    IF Len(links) = 0 \/ st.exc # "none" THEN st
    ELSE IF Fails(st)
    THEN assignment_links(Request(st, Art(course, "file", Head(links))),
                          Tail(links), folder, course, course_name, dest_label)
    ELSE LET s1 == process_canvas_file(Tick(st), FileInfoOf(Head(links)), folder,
                                        course, course_name, dest_label)
         IN  assignment_links([s1 EXCEPT !.count = @ + s1.ret, !.ret = 0],
                              Tail(links), folder, course, course_name, dest_label)

\* The mutant goes on to the upsert after a failed render.
render_and_upsert_regardless(st, art, filename, folder, existing_metadata, course_name, dest_label) ==
    LET s1 == IF Fails(st) THEN Emit(Tick(st), "render", art, "fail")
              ELSE ScratchPut(Emit(Tick(st), "render", art, "ok"), filename, 0)
        s2 == upsert(s1, filename, filename, folder, existing_metadata, art)
        s3 == IF s2.ok
              THEN [add_file(s2, course_name, dest_label, filename,
                             IF existing_metadata.present
                             THEN "updated" ELSE "created")
                       EXCEPT !.count = @ + 1]
              ELSE s2
    IN  ScratchRemove(s3, filename)

\* The mutant records and counts the artifact whatever the upsert returned.
render_and_upsert_unchecked(st, art, filename, folder, existing_metadata, course_name, dest_label) ==
    IF Fails(st)
    THEN ScratchRemove(Emit(Tick(st), "render", art, "fail"), filename)
    ELSE
    LET s1 == ScratchPut(Emit(Tick(st), "render", art, "ok"), filename, 0)
        s2 == upsert(s1, filename, filename, folder, existing_metadata, art)
        s3 == [add_file(s2, course_name, dest_label, filename,
                        IF existing_metadata.present THEN "updated" ELSE "created")
                  EXCEPT !.count = @ + 1]
    IN  ScratchRemove(s3, filename)

\* Lines 1144-1195 (and the same shape at 1322-1364, 1560-1680, 2700-2760):
\* render to the scratch directory, upsert, record, remove the temporary
\* file; any exception of the render is caught and the file removed.
render_and_upsert(st, art, filename, folder, existing_metadata, course_name, dest_label) ==
    IF Fails(st)
    THEN ScratchRemove(Emit(Tick(st), "render", art, "fail"), filename)
    ELSE
    LET s1 == ScratchPut(Emit(Tick(st), "render", art, "ok"), filename, 0)
        s2 == upsert(s1, filename, filename, folder, existing_metadata, art)
        s3 == IF s2.ok
              THEN [add_file(s2, course_name, dest_label, filename,
                             IF existing_metadata.present
                             THEN "updated" ELSE "created")
                       EXCEPT !.count = @ + 1]
              ELSE s2
    IN  ScratchRemove(s3, filename)

\* The mutant leaves the configured override out.
forced_or_changed_unforced(existing_metadata, updated_at) ==
    has_file_changed(existing_metadata, NoSize, updated_at)

\* Line 928: force_regen_assignments or has_file_changed(...); the detection
\* is not evaluated when the override is on.
forced_or_changed(existing_metadata, updated_at) ==
    IF cfg.force_regen_assignments THEN "True"
    ELSE has_file_changed(existing_metadata, NoSize, updated_at)

\* Lines 872-1236.
process_canvas_assignment(st, assignment_info, assignments_root, course, course_name) ==
    LET art == Art(course, "assignment", assignment_info.id)
        s0 == [Emit(st, "begin", art, "") EXCEPT !.count = 0]
    IN  IF assignment_info.name = <<>> THEN s0
        ELSE
        LET safe_assignment_name == sanitize_filename(assignment_info.name)
            assignment_storage_path == Append(assignments_root, safe_assignment_name)
            dest_label == <<course_name, <<"Assignments">>, safe_assignment_name>>
            pdf_filename == PdfName(safe_assignment_name)
            pdf_at == <<assignment_storage_path, pdf_filename>>
            s1 == storage_folder(s0, assignment_storage_path)
        IN  IF ~s1.ok THEN s1
            ELSE
            LET existing_metadata ==
                    get_existing_file_metadata(s1, assignment_storage_path,
                                               pdf_filename)
                s2 == Emit(Tick(s1), "lookup", art,
                           IF existing_metadata.present THEN "found" ELSE "none")
                changed == forced_or_changed(existing_metadata,
                                             assignment_info.updated_at)
            IN  IF Raised(changed)
                THEN [Decide(s2, art, pdf_at, "raise") EXCEPT !.exc = changed]
                ELSE
                LET s3 == IF changed = "False" THEN Decide(s2, art, pdf_at, "Skip")
                          ELSE render_and_upsert(
                                   Decide(s2, art, pdf_at,
                                        IF existing_metadata.present
                                        THEN "Update" ELSE "Create"),
                                   art, pdf_filename, assignment_storage_path,
                                   existing_metadata, course_name, dest_label)
                IN  assignment_links(s3, assignment_info.description,
                                     assignment_storage_path, course, course_name,
                                     dest_label)

\* A page body is its content in document order: 0 stands for text, a
\* positive number for a link to /files/<number>.  <<>> is the empty body.
IsLink(token) == token > 0
BodyLinks(html_body) == SelectSeq(html_body, IsLink)

RECURSIVE page_links(_, _, _, _, _, _)
\* Lines 2765-2799: the request of a link is inside the item's try only, and
\* only its status is tested: a response with an error status skips the
\* link, an exception of the request leaves the loop (st.badstatus chooses).
page_links(st, links, folder, course, course_name, dest_label) ==
    IF Len(links) = 0 \/ st.exc # "none" THEN st
    ELSE IF Fails(st)
    THEN IF st.badstatus
         THEN page_links(Request(st, Art(course, "file", Head(links))),
                         Tail(links), folder, course, course_name, dest_label)
         ELSE [Request(st, Art(course, "file", Head(links)))
                  EXCEPT !.exc = "RequestException"]
    ELSE LET s1 == process_canvas_file(Tick(st), FileInfoOf(Head(links)), folder,
                                        course, course_name, dest_label)
         IN  page_links([s1 EXCEPT !.count = @ + s1.ret, !.ret = 0],
                        Tail(links), folder, course, course_name, dest_label)

\* Lines 2609-2627: a module item of type File.
module_file_item(st, item, course, course_name) ==
    IF Fails(st)
    THEN [Request(st, Art(course, "file", item.id)) EXCEPT !.exc = "RequestException"]
    ELSE LET s1 == process_canvas_file(Tick(st), FileInfoOf(item.id),
                                        <<course_name>>, course, course_name,
                                        <<course_name>>)
         IN  [s1 EXCEPT !.count = @ + s1.ret, !.ret = 0]

\* Lines 2629-2799: a module item of type Page.  The configured force
\* regeneration is not consulted here.
module_page_item(st, item, course, course_name) ==
    LET art == Art(course, "page", item.id)
        s0 == Emit(st, "begin", art, "")
        page_data == item.pd
    IN  IF Fails(s0) THEN [Request(s0, art) EXCEPT !.exc = "RequestException"]
        ELSE IF page_data.title = <<>> \/ page_data.body = <<>> THEN Tick(s0)
        ELSE
        LET safe_page_title == sanitize_filename(page_data.title)
            page_storage_path == <<course_name, safe_page_title>>
            dest_label == <<course_name, safe_page_title>>
            pdf_filename == PdfName(safe_page_title)
            pdf_at == <<page_storage_path, pdf_filename>>
            s1 == storage_folder(Tick(s0), page_storage_path)
        IN  IF ~s1.ok THEN s1
            ELSE
            LET existing_metadata ==
                    get_existing_file_metadata(s1, page_storage_path, pdf_filename)
                s2 == Emit(Tick(s1), "lookup", art,
                           IF existing_metadata.present THEN "found" ELSE "none")
                changed == has_file_changed(existing_metadata, NoSize,
                                            page_data.updated_at)
            IN  IF Raised(changed)
                THEN [Decide(s2, art, pdf_at, "raise") EXCEPT !.exc = changed]
                ELSE
                LET s3 == IF changed = "False" THEN Decide(s2, art, pdf_at, "Skip")
                          ELSE render_and_upsert(
                                   Decide(s2, art, pdf_at,
                                        IF existing_metadata.present
                                        THEN "Update" ELSE "Create"),
                                   art, pdf_filename, page_storage_path,
                                   existing_metadata, course_name, dest_label)
                IN  page_links(s3, BodyLinks(page_data.body), page_storage_path,
                               course, course_name, dest_label)

\* Lines 2605-2804: one iteration of the item loop.  Both except clauses
\* print and go on to the next item.
module_item(st, item, course, course_name) ==
    LET s1 == IF item.type = "File"
              THEN module_file_item(st, item, course, course_name)
              ELSE IF item.type = "Page"
              THEN module_page_item(st, item, course, course_name)
              ELSE st
    IN  [s1 EXCEPT !.exc = "none"]

\* Lines 737-767 for a listing of one page of results: the items, or none
\* of them when the request fails.
get_paginated_canvas_items(st, items) == IF Fails(st) THEN <<>> ELSE items

IsPageItem(item) == item.type = "Page"

\* Lines 1382-1681.  The order of the pages inside the PDF (the sort by
\* title) is not part of the model: a rendered artifact has no content here.
process_course_pages(st, course, course_name) ==
    LET art == Art(course, "pages", 0)
        pages_folder == <<course_name, <<"Pages">>>>
        output_filename == <<"All Pages.pdf">>
        s1 == storage_folder(Emit(st, "begin", art, ""), pages_folder)
    IN  IF ~s1.ok THEN s1
        ELSE
        LET pages_from_api == get_paginated_canvas_items(s1, src.pages[course])
            s2 == Request(s1, Art(course, "page listing", 0))
            modules_ok == ~Fails(s2)
            s3 == Request(s2, Art(course, "pages module listing", 0))
            listed_items == IF modules_ok
                            THEN get_paginated_canvas_items(s3, src.items[course])
                            ELSE <<>>
            s4 == IF modules_ok
                  THEN Request(s3, Art(course, "pages item listing", 0))
                  ELSE s3
            found == SelectSeq(listed_items, IsPageItem)
            page_items == [k \in 1..Len(found) |->
                              [fetch_ok |-> (s4.n + k) \notin s4.F,
                               page_url |-> found[k].page_url,
                               pd |-> found[k].pd]]
            s5 == Requests(s4, [k \in 1..Len(found) |->
                                   Art(course, "page detail", found[k].id)])
            pages_map == merge_pages(pages_from_api, page_items)
        IN  IF Len(pages_map) = 0 THEN s5
            ELSE
            LET newest == max_updated_at_iso(
                              [i \in 1..Len(pages_map) |-> pages_map[i].val.updated_at])
                existing_metadata ==
                    get_existing_file_metadata(s5, pages_folder, output_filename)
                s6 == Emit(Tick(s5), "lookup", art,
                           IF existing_metadata.present THEN "found" ELSE "none")
            IN  IF ~should_rebuild(existing_metadata, newest)
                THEN Decide(s6, art, <<pages_folder, output_filename>>, "Skip")
                ELSE render_and_upsert(
                         Decide(s6, art, <<pages_folder, output_filename>>,
                              IF existing_metadata.present THEN "Update" ELSE "Create"),
                         art, output_filename, pages_folder, existing_metadata,
                         course_name, pages_folder)

\* The JSON exports of the model, in the order main calls them, with the
\* keys each reads its newest stamp from (lines 1716, 1962).
ExportKinds == <<"announcements", "calendar_events">>
ExportKeys ==
    [announcements |-> <<"posted_at", "last_reply_at", "updated_at">>,
     calendar_events |-> <<"updated_at", "start_at", "end_at">>]
ExportFile == [announcements |-> <<"announcements.json">>,
               calendar_events |-> <<"calendar_events.json">>]

\* The mutant writes the export also when the decision is Skip.
process_course_export_always(st, e, course, course_name) ==
    LET kind == ExportKinds[e]
        art == Art(course, "export", e)
        reports_folder == <<course_name, <<"Reports">>>>
        s0 == Emit(st, "begin", art, "")
        listed == get_paginated_canvas_items(s0, src.exports[course][kind])
        s1 == Request(s0, Art(course, "export listing", e))
    IN  IF Len(listed) = 0 THEN s1
        ELSE
        LET latest_ts == _max_timestamp_from_items(listed, Len(ExportKeys[kind]))
            filename == ExportFile[kind]
            existing_metadata == get_existing_file_metadata(s1, reports_folder, filename)
            s2 == Emit(Tick(s1), "lookup", art,
                       IF existing_metadata.present THEN "found" ELSE "none")
        IN  render_and_upsert(
                Decide(s2, art, <<reports_folder, filename>>,
                       IF ~_should_regenerate_resource(existing_metadata, latest_ts)
                       THEN "Skip"
                       ELSE IF existing_metadata.present THEN "Update" ELSE "Create"),
                art, filename, reports_folder, existing_metadata,
                course_name, reports_folder)

\* Lines 1684-1745 and 1929-1990 (every process_course_<export> has this
\* shape), with _export_json_resource (1322-1364) for the write.
process_course_export(st, e, course, course_name) ==
    LET kind == ExportKinds[e]
        art == Art(course, "export", e)
        reports_folder == <<course_name, <<"Reports">>>>
        s0 == Emit(st, "begin", art, "")
        listed == get_paginated_canvas_items(s0, src.exports[course][kind])
        s1 == Request(s0, Art(course, "export listing", e))
    IN  IF Len(listed) = 0 THEN s1
        ELSE
        LET latest_ts == _max_timestamp_from_items(listed, Len(ExportKeys[kind]))
            filename == ExportFile[kind]
            existing_metadata == get_existing_file_metadata(s1, reports_folder, filename)
            s2 == Emit(Tick(s1), "lookup", art,
                       IF existing_metadata.present THEN "found" ELSE "none")
        IN  IF ~_should_regenerate_resource(existing_metadata, latest_ts)
            THEN Decide(s2, art, <<reports_folder, filename>>, "Skip")
            ELSE render_and_upsert(
                     Decide(s2, art, <<reports_folder, filename>>,
                          IF existing_metadata.present THEN "Update" ELSE "Create"),
                     art, filename, reports_folder, existing_metadata,
                     course_name, reports_folder)

----------------------------------------------------------------------------
(* The source and the destination a run starts from *)

OldStamp == Iso(MaxT - 2, 0, TRUE)
NewStamp == Iso(MaxT, 0, TRUE)
FutureStamp == Iso(FutureT, 0, TRUE)
\* The stamp of an artifact an earlier sync wrote: between old and new.
PriorStamp(backend) ==
    IF backend = "google_drive" THEN Iso(MaxT - 1, 0, TRUE) ELSE Epoch(MaxT - 1)

StampOf(word) ==
    IF word = "old" THEN OldStamp
    ELSE IF word \in {"new", "assignment"} THEN NewStamp
    ELSE IF word = "future" THEN FutureStamp
    ELSE IF word = "bad" THEN BadTs
    ELSE NoneTs

CourseName == << <<"c", "1">>, <<"c", ":", "2">> >>
AssignmentName == <<"h", ":", "w">>
PageTitle == <<"p", "g">>
PageSlug == <<"p">>
FileName == << <<"f", "1">>, <<"f", "2">> >>
NoPage == Page(<<>>, <<>>, <<>>, NoneTs, <<>>, "none")

FileItem(fid) == [type |-> "File", id |-> fid, page_url |-> <<>>, pd |-> NoPage]
PageItem(pid, pd) == [type |-> "Page", id |-> pid, page_url |-> pd.url, pd |-> pd]

\* p.ts is the updated_at of the assignment, and of the page and of file 1
\* unless it is the unparseable one or the one of the assignment alone:
\* those keep the old stamp then.
ContentStamp(p) ==
    IF p.ts \in {"bad", "assignment"} THEN OldStamp ELSE StampOf(p.ts)

\* The scenarios: p.layout = 1 has the assignment link file 2 and the module
\* list the file before the page; p.layout = 2 has no assignment link, the
\* page before the file, and a file 2 without a download url.  The page
\* links files 1 and 2; course 2 has file 1 as its only module item.
Source(p) ==
    LET page == Page(PageSlug, <<>>, PageTitle, ContentStamp(p), <<0, 1, 2>>, "fetched")
        listed == Page(PageSlug, <<>>, PageTitle, ContentStamp(p), <<0, 1, 2>>, "direct")
    IN  [courses |-> <<[id |-> 1, name |-> CourseName[1]],
                       [id |-> 2, name |-> CourseName[2]]>>,
         files |-> <<[id |-> 1, display_name |-> FileName[1], url |-> TRUE,
                      size |-> 100, updated_at |-> ContentStamp(p)],
                     [id |-> 2, display_name |-> FileName[2], url |-> p.layout = 1,
                      size |-> 200, updated_at |-> OldStamp]>>,
         assignments |-> << <<[id |-> 1, name |-> AssignmentName,
                               updated_at |-> StampOf(p.ts),
                               description |-> IF p.layout = 1 THEN <<2>> ELSE <<>>]>>,
                            <<>> >>,
         items |-> << IF p.layout = 1
                      THEN <<FileItem(1), PageItem(1, page)>>
                      ELSE <<PageItem(1, page), FileItem(1)>>,
                      <<FileItem(1)>> >>,
         pages |-> << <<listed>>, <<>> >>,
         exports |-> <<[announcements |->
                            << <<IF p.eTs = "none" THEN NoneTs ELSE OldStamp,
                                 NoneTs, NoneTs>> >>,
                        calendar_events |->
                            << <<OldStamp,
                                 IF p.eTs = "future" THEN FutureStamp ELSE NoneTs,
                                 NoneTs>> >>],
                       [announcements |-> <<>>, calendar_events |-> <<>>]>>]

\* The destination folders and artifacts an earlier sync of this source
\* left (file 2 with another size than the source has now).
SyncedFolders ==
    {<<>>, <<CourseName[1]>>, <<CourseName[1], <<"Reports">>>>,
     <<CourseName[1], <<"Assignments">>>>,
     <<CourseName[1], <<"Assignments">>, sanitize_filename(AssignmentName)>>,
     <<CourseName[1], sanitize_filename(PageTitle)>>,
     <<CourseName[1], <<"Pages">>>>,
     <<CourseName[2]>>, <<CourseName[2], <<"Reports">>>>,
     <<CourseName[2], <<"Pages">>>>}

SyncedList(p) ==
    LET a == sanitize_filename(AssignmentName)
        g == sanitize_filename(PageTitle)
        c == CourseName[1]
    IN  <<[folder |-> <<c, <<"Assignments">>, a>>, name |-> PdfName(a), size |-> 0],
          [folder |-> <<c, g>>, name |-> PdfName(g), size |-> 0],
          [folder |-> <<c, <<"Pages">>>>, name |-> <<"All Pages.pdf">>, size |-> 0],
          [folder |-> <<c, <<"Reports">>>>, name |-> ExportFile.announcements, size |-> 0],
          [folder |-> <<c, <<"Reports">>>>, name |-> ExportFile.calendar_events, size |-> 0],
          [folder |-> <<CourseName[2]>>, name |-> FileName[1], size |-> 100],
          [folder |-> IF p.layout = 1 THEN <<c>> ELSE <<c, g>>,
           name |-> FileName[1], size |-> 100]>>
        \o (IF p.layout = 1
            THEN <<[folder |-> <<c, <<"Assignments">>, a>>, name |-> FileName[2],
                    size |-> 100]>>
            ELSE <<>>)

SyncedDest(p) ==
    LET l == SyncedList(p)
    IN  {[folder |-> l[i].folder, name |-> l[i].name,
          id |-> IF p.storage = "google_drive" THEN i ELSE 0,
          size |-> l[i].size, modified_time |-> PriorStamp(p.storage)] :
            i \in 1..Len(l)}

Scenarios ==
    [storage : {"local", "google_drive"}, force : BOOLEAN, synced : BOOLEAN,
     ts : {"old", "new", "bad", "assignment"}, layout : {1, 2},
     eTs : {"old", "none", "future"}]

\* What an interrupted earlier run left in the scratch directory.
LeftOver == {[name |-> <<"o", "l", "d">>, size |-> 0]}

\* The configurations of scenario p: the complete file for its backend and,
\* for the first scenario, every other content of the file, with or without
\* a scratch directory left behind.
FirstScenario ==
    [storage |-> "local", force |-> FALSE, synced |-> FALSE, ts |-> "old",
     layout |-> 1, eTs |-> "old"]

ConfigsOf(p) ==
    {[file |-> TRUE, keys |-> ConfigKeys, raw |-> p.storage, left |-> FALSE]}
        \cup IF p = FirstScenario
             THEN [file : BOOLEAN, keys : SUBSET ConfigKeys,
                   raw : StorageTypeTexts, left : BOOLEAN]
             ELSE {}

----------------------------------------------------------------------------
(* main *)

RECURSIVE FaultSets(_)
\* The sets of at most b failing operations of one handler.
FaultSets(b) ==
    IF b = 0 THEN {{}}
    ELSE LET smaller == FaultSets(b - 1)
         IN  smaller \cup {S \cup {k} : S \in smaller, k \in 1..MaxOps}

HasDuplicates ==
    \E d, e \in dest : d # e /\ d.folder = e.folder /\ d.name = e.name

\* The machine state a handler starts from.
MkSt(F, partial, newest, badstatus) ==
    [dest |-> dest, folders |-> folders, scratch |-> scratch, summary |-> summary,
     processed |-> processed_canvas_file_ids, log |-> log, nextId |-> nextId,
     n |-> 0, F |-> F, partial |-> partial, newest |-> newest,
     badstatus |-> badstatus, exc |-> "none", ok |-> TRUE, ret |-> 0, count |-> 0]

\* The choices of the environment during one handler.  A choice that cannot
\* show (a failure mode without a failure, an order without duplicates) is
\* not taken.
EnvChoices ==
    {e \in [F : FaultSets(MaxFaults - faults), partial : BOOLEAN,
            newest : BOOLEAN, badstatus : BOOLEAN] :
        /\ (e.partial \/ e.badstatus) => e.F # {}
        /\ e.newest => HasDuplicates}

StOf(e) == MkSt(e.F, e.partial, e.newest, e.badstatus)

\* The handler's effects become the program's state.  Every failure the
\* environment chose was met by an operation.
Commit(st) ==
    /\ \A k \in st.F : k <= st.n
    /\ dest' = st.dest
    /\ folders' = st.folders
    /\ scratch' = st.scratch
    /\ summary' = st.summary
    /\ processed_canvas_file_ids' = st.processed
    /\ log' = st.log
    /\ nextId' = st.nextId
    /\ faults' = faults + Cardinality(st.F)
    /\ calls' = calls + st.n

Init ==
    /\ FunIdle
    /\ \E p \in Scenarios : \E c \in ConfigsOf(p) :
        /\ cfg = [file |-> c.file, keys |-> c.keys, STORAGE_TYPE |-> c.raw,
                  force_regen_assignments |-> p.force,
                  exports |-> {"announcements", "calendar_events"}]
        /\ src = Source(p)
        /\ dest = IF p.synced THEN SyncedDest(p) ELSE {}
        /\ folders = IF p.synced THEN SyncedFolders ELSE {}
        /\ nextId = IF p.synced THEN Len(SyncedList(p)) + 1 ELSE 1
        /\ scratch = IF c.left THEN LeftOver ELSE {}
        /\ scratch_dir = c.left
    /\ summary = <<>>
    /\ pc = "start"
    /\ run = 1
    /\ ci = 0
    /\ ai = 0
    /\ mi = 0
    /\ ei = 0
    /\ assignments = <<>>
    /\ module_items = <<>>
    /\ paths = [reports |-> FALSE]
    /\ processed_canvas_file_ids = {}
    /\ new_items_synced = 0
    /\ log = <<>>
    /\ faults = 0
    /\ calls = 0

\* Lines 2378-2398: the Drive service and the root folder, or the local
\* root directory.
storage_root(st) ==
    IF storage_type = "google_drive"
    THEN LET s1 == get_drive_service(st)
         IN  IF ~s1.ok THEN s1 ELSE get_or_create_folder(s1, <<>>)
    ELSE get_or_create_local_folder(st, <<>>)

\* Lines 2344-2500: the configuration is read and checked, the storage is
\* set up, the scratch directory is emptied and made, the courses are listed
\* and all of them selected; without courses main returns.
main_start ==
    /\ pc = "start"
    /\ \E e \in EnvChoices :
        LET s0 == StOf(e)
            s1 == storage_root(s0)
            s2 == [s1 EXCEPT !.scratch = {}]
            courses == get_paginated_canvas_items(s2, src.courses)
        IN  IF config_error # "none"
            THEN Commit(s0) /\ pc' = "returned" /\ ci' = 0
                 /\ UNCHANGED scratch_dir
            ELSE IF ~s1.ok
            THEN Commit(s1) /\ pc' = "returned" /\ ci' = 0
                 /\ UNCHANGED scratch_dir
            ELSE /\ Commit(Request(s2, Art(0, "course listing", 0)))
                 /\ scratch_dir' = TRUE
                 /\ IF Len(courses) = 0
                    THEN pc' = "returned" /\ ci' = 0
                    ELSE pc' = "course" /\ ci' = 1
    /\ UNCHANGED <<funvars, cfg, src, run, ai, mi, ei, assignments, module_items,
                   paths, new_items_synced>>

\* The mutant leaves the course loop after the first course.
NextCourse_break == pc' = "finish" /\ ci' = 0

\* The position after the last step of course ci.
NextCourse ==
    IF ci < Len(src.courses) THEN pc' = "course" /\ ci' = ci + 1
    ELSE pc' = "finish" /\ ci' = 0

\* The first enabled export from position e on, or 0.
EnabledFrom(e) ==
    LET later == {k \in e..Len(ExportKinds) : ExportKinds[k] \in cfg.exports}
    IN  IF later = {} THEN 0 ELSE CHOOSE k \in later : \A j \in later : k <= j

\* Lines 2504-2562: the course folder (without it the course is left out),
\* the Reports folder, the per-course set and counter, the assignments
\* listing and the Assignments folder.
\* The quizzes listed at 2510-2527 are printed only and leave no trace.
begin_course ==
    /\ pc = "course"
    /\ \E e \in EnvChoices :
        LET course_name == src.courses[ci].name
            s1 == storage_folder(StOf(e), <<course_name>>)
        IN  IF ~s1.ok
            THEN /\ Commit(s1)
                 /\ NextCourse
                 /\ UNCHANGED <<paths, assignments, ai>>
            ELSE
            LET s2 == storage_folder(s1, <<course_name, <<"Reports">>>>)
                s3 == fresh_processed(s2)
                listed == get_paginated_canvas_items(s3, src.assignments[ci])
                s4 == Request(s3, Art(ci, "assignment listing", 0))
                s5 == IF Len(listed) > 0
                      THEN storage_folder(s4, <<course_name, <<"Assignments">>>>)
                      ELSE s4
            IN  /\ Commit(s5)
                /\ paths' = [reports |-> s2.ok]
                /\ ci' = ci
                /\ IF Len(listed) > 0 /\ s5.ok
                   THEN pc' = "assignments" /\ assignments' = listed /\ ai' = 1
                   ELSE pc' = "modules" /\ assignments' = <<>> /\ ai' = 0
    /\ new_items_synced' = 0
    /\ UNCHANGED <<funvars, cfg, src, scratch_dir, run, mi, ei, module_items>>

\* Lines 2573-2590: one iteration of the assignment loop.  An exception
\* leaving process_canvas_assignment leaves main.
process_assignment ==
    /\ pc = "assignments"
    /\ \E e \in EnvChoices :
        LET course_name == src.courses[ci].name
            st == process_canvas_assignment(
                      StOf(e), assignments[ai],
                      <<course_name, <<"Assignments">>>>, ci, course_name)
        IN  /\ Commit(st)
            /\ IF st.exc # "none"
               THEN pc' = "crashed" /\ ai' = 0 /\ assignments' = <<>> /\ ci' = 0
                    /\ UNCHANGED new_items_synced
               ELSE /\ new_items_synced' = new_items_synced + st.count
                    /\ ci' = ci
                    /\ IF ai < Len(assignments)
                       THEN pc' = pc /\ ai' = ai + 1 /\ UNCHANGED assignments
                       ELSE pc' = "modules" /\ ai' = 0 /\ assignments' = <<>>
    /\ UNCHANGED <<funvars, cfg, src, scratch_dir, run, mi, ei, module_items, paths>>

\* Lines 2592-2603: the modules and their items are listed (one module per
\* course here).
fetch_modules ==
    /\ pc = "modules"
    /\ \E e \in EnvChoices :
        LET s0 == StOf(e)
            modules_ok == ~Fails(s0)
            s1 == Request(s0, Art(ci, "module listing", 0))
            listed == IF modules_ok
                      THEN get_paginated_canvas_items(s1, src.items[ci])
                      ELSE <<>>
            s2 == IF modules_ok THEN Request(s1, Art(ci, "item listing", 0)) ELSE s1
        IN  /\ Commit(s2)
            /\ module_items' = listed
            /\ IF Len(listed) > 0 THEN pc' = "items" /\ mi' = 1
               ELSE pc' = "pages" /\ mi' = 0
    /\ UNCHANGED <<funvars, cfg, src, scratch_dir, run, ci, ai, ei, assignments,
                   paths, new_items_synced>>

\* Lines 2605-2804: one iteration of the item loop.
process_item ==
    /\ pc = "items"
    /\ \E e \in EnvChoices :
        LET st == module_item(StOf(e), module_items[mi], ci, src.courses[ci].name)
        IN  /\ Commit(st)
            /\ new_items_synced' = new_items_synced + st.count
    /\ IF mi < Len(module_items)
       THEN pc' = pc /\ mi' = mi + 1 /\ UNCHANGED module_items
       ELSE pc' = "pages" /\ mi' = 0 /\ module_items' = <<>>
    /\ UNCHANGED <<funvars, cfg, src, scratch_dir, run, ci, ai, ei, assignments, paths>>

\* Lines 2806-2822: the merged pages PDF; then the exports, when the Reports
\* folder is there.
process_pages ==
    /\ pc = "pages"
    /\ \E e \in EnvChoices :
        LET st == process_course_pages(StOf(e), ci, src.courses[ci].name)
        IN  /\ Commit(st)
            /\ new_items_synced' = new_items_synced + st.count
    /\ IF paths.reports /\ EnabledFrom(1) # 0
       THEN pc' = "exports" /\ ei' = EnabledFrom(1) /\ ci' = ci
       ELSE NextCourse /\ ei' = 0
    /\ UNCHANGED <<funvars, cfg, src, scratch_dir, run, ai, mi, assignments,
                   module_items, paths>>

\* Lines 2825-2986: one enabled export, inside its own try.
process_export ==
    /\ pc = "exports"
    /\ \E e \in EnvChoices :
        LET st == process_course_export(StOf(e), ei, ci, src.courses[ci].name)
        IN  /\ Commit(st)
            /\ new_items_synced' = new_items_synced + st.count
    /\ IF EnabledFrom(ei + 1) # 0
       THEN pc' = pc /\ ei' = EnabledFrom(ei + 1) /\ ci' = ci
       ELSE NextCourse /\ ei' = 0
    /\ UNCHANGED <<funvars, cfg, src, scratch_dir, run, ai, mi, assignments,
                   module_items, paths>>

\* Lines 3014-3016: the summary is printed and the scratch directory removed.
\* The inbox export before them (2995-3011) is off unless configured and is
\* not part of the model.
finish ==
    /\ pc = "finish"
    /\ pc' = "done"
    /\ scratch' = {}
    /\ scratch_dir' = FALSE
    /\ log' = log \o <<[op |-> "print_summary", art |-> Art(0, "run", 0),
                          res |-> "", run |-> run, at |-> <<>>],
                         [op |-> "done", art |-> Art(0, "run", 0), res |-> "",
                          run |-> run, at |-> <<>>]>>
    /\ UNCHANGED <<funvars, cfg, src, dest, folders, summary, run, ci, ai, mi, ei,
                   assignments, module_items, paths, processed_canvas_file_ids,
                   new_items_synced, nextId, faults, calls>>

\* The program is started again on the destination the last run left.
rerun ==
    /\ pc \in {"done", "returned", "crashed"}
    /\ run < MaxRuns
    /\ run' = run + 1
    /\ pc' = "start"
    /\ summary' = <<>>
    /\ processed_canvas_file_ids' = {}
    /\ new_items_synced' = 0
    /\ paths' = [reports |-> FALSE]
    /\ module_items' = <<>>
    /\ mi' = 0
    /\ calls' = 0
    /\ UNCHANGED <<funvars, cfg, src, dest, folders, scratch, scratch_dir, ci, ai,
                   ei, assignments, nextId, log, faults>>

Next ==
    \/ main_start
    \/ begin_course
    \/ process_assignment
    \/ fetch_modules
    \/ process_item
    \/ process_pages
    \/ process_export
    \/ finish
    \/ rerun

Spec == Init /\ [][Next]_vars

----------------------------------------------------------------------------
(* Properties of the sync run *)

LogIdx == 1..Len(log)
FileIds == DOMAIN src.files
CourseIdx == 1..Len(src.courses)

SameArtRun(i, j) == log[j].art = log[i].art /\ log[j].run = log[i].run

\* Event j belongs to the processing of the resource that event i belongs
\* to: the same artifact and run, and the resource was not begun again
\* between them.
SameProcessing(i, j) ==
    /\ i < j
    /\ SameArtRun(i, j)
    /\ \A k \in (i + 1)..j :
          ~(log[k].op \in {"begin", "call"} /\ log[k].art = log[i].art)

IsSkip(i) == log[i].op = "decide" /\ log[i].res = "Skip"
IsChange(i) == log[i].op = "decide" /\ log[i].res \in {"Create", "Update"}

\* The stamp of an artifact written in run r.
StampAt(r) ==
    IF storage_type = "google_drive" THEN Iso(MaxT + r, 0, TRUE)
    ELSE Epoch(MaxT + r)

\* C1: when the decision for an artifact is Skip, no download, no render and
\* no upsert is performed for that artifact in that run, and the artifact
\* in the destination is not written in that run.
C1_SkipWritesNothing ==
    \A i \in LogIdx : IsSkip(i) =>
        /\ \A j \in LogIdx :
              SameArtRun(i, j) => log[j].op \notin {"download", "render", "upsert"}
        /\ \A d \in dest :
              <<d.folder, d.name>> = log[i].at => d.modified_time # StampAt(log[i].run)

\* A run that ended after a Skip for an artifact the destination holds.
C1_Witness ==
    /\ pc = "done"
    /\ \E i \in LogIdx :
          /\ IsSkip(i)
          /\ log[i].run = run
          /\ \E d \in dest : <<d.folder, d.name>> = log[i].at

Steps(i) ==
    {j \in LogIdx : SameProcessing(i, j) /\ log[j].op \in {"download", "render"}}
Upserts(i) == {j \in LogIdx : SameProcessing(i, j) /\ log[j].op = "upsert"}

\* C2 as stated: every Create or Update decision is followed, within the
\* processing of its resource, by exactly one upsert attempt, whatever the
\* outcome of the download or render step.
C2_ExactlyOneUpsert ==
    \A i \in LogIdx : IsChange(i) => Cardinality(Upserts(i)) = 1

\* C2 amended: every Create or Update decision is followed by one download
\* or render step, and by exactly one upsert attempt when that step succeeds
\* and by none when it fails.
C2_UpsertIffStepSucceeds ==
    \A i \in LogIdx : IsChange(i) =>
        /\ Cardinality(Steps(i)) = 1
        /\ \A j \in Steps(i) :
              Cardinality(Upserts(i)) = IF log[j].res = "ok" THEN 1 ELSE 0

\* A decision whose step failed, and one whose step succeeded.
C2_Witness ==
    /\ \E i \in LogIdx : IsChange(i) /\ Upserts(i) = {}
                         /\ \E j \in Steps(i) : log[j].res = "fail"
    /\ \E i \in LogIdx : IsChange(i) /\ Cardinality(Upserts(i)) = 1
                         /\ \E j \in Steps(i) : log[j].res = "ok"

NewEvents == (Len(log) + 1)..Len(log')

\* C3: when an upsert attempt returns failure, the temporary artifact is not
\* in the scratch directory after the handler, the handler adds no summary
\* entry for the artifact, and the per-course counter grows by no more than
\* the number of upserts that succeeded.
C3_FailedUpsertLeavesNothing ==
    [][\A j \in NewEvents :
          (log'[j].op = "upsert" /\ log'[j].res = "fail") =>
              /\ \A x \in scratch' : x.name # log'[j].at[2]
              /\ \A k \in (Len(summary) + 1)..Len(summary') :
                    ~(/\ summary'[k].dest_label = log'[j].at[1]
                      /\ summary'[k].filename = log'[j].at[2])
              /\ new_items_synced' <=
                    new_items_synced
                      + Cardinality({k \in NewEvents :
                                        log'[k].op = "upsert" /\ log'[k].res = "ok"})]_vars

\* A failed upsert in the run under way.
C3_Witness ==
    \E j \in LogIdx :
        /\ log[j].op = "upsert" /\ log[j].res = "fail" /\ log[j].run = run
        /\ \A x \in scratch : x.name # log[j].at[2]
        /\ \A k \in 1..Len(summary) : summary[k].filename # log[j].at[2]

FileEvents(c, f, r, op) ==
    {j \in LogIdx : log[j].art = Art(c, "file", f) /\ log[j].run = r /\ log[j].op = op}

InCourse == pc \in {"assignments", "modules", "items", "pages", "exports"}

\* C4: within one course's traversal there is, for each file id, at most one
\* call of process_canvas_file that processes it, at most one lookup, one
\* download and one upsert; and a call for an id of the processed set
\* returns 0 and changes nothing.
C4_AtMostOncePerCourse ==
    /\ \A c \in CourseIdx, f \in FileIds, r \in 1..MaxRuns :
          /\ \A op \in {"lookup", "download", "upsert"} :
                Cardinality(FileEvents(c, f, r, op)) <= 1
          /\ Cardinality({j \in FileEvents(c, f, r, "call") :
                             log[j].res = "process"}) <= 1
    /\ InCourse =>
          \A f \in processed_canvas_file_ids, F \in {{}, {1}} :
              LET st == MkSt(F, FALSE, FALSE, FALSE)
                  course_name == src.courses[ci].name
              IN  process_canvas_file(st, FileInfoOf(f), <<course_name>>, ci,
                                      course_name, <<course_name>>)
                     = EmitAt(st, "call", Art(ci, "file", f), "return",
                              <<<<course_name>>, FileInfoOf(f).display_name>>)

\* A later call for an id whose first call ended in a failed download.
C4_Witness ==
    \E c \in CourseIdx, f \in FileIds :
        \E i \in FileEvents(c, f, run, "call"), j \in FileEvents(c, f, run, "call"),
           k \in FileEvents(c, f, run, "download") :
            /\ i < k /\ k < j
            /\ log[i].res = "process" /\ log[k].res = "fail" /\ log[j].res = "return"

ItemsOf(c) == {src.items[c][k] : k \in 1..Len(src.items[c])}

\* The files of course c that are a module item and a link of a module page.
BothWays(c) ==
    {f \in FileIds :
        /\ \E item \in ItemsOf(c) : item.type = "File" /\ item.id = f
        /\ \E item \in ItemsOf(c) :
              /\ item.type = "Page"
              /\ \E k \in 1..Len(item.pd.body) : item.pd.body[k] = f}

RunDone(r) == \E j \in LogIdx : log[j].op = "done" /\ log[j].run = r

\* C5 as stated: a file that is a module item and a link of a page body has
\* exactly one upsert in a run.
C5_ExactlyOncePerRun ==
    \A r \in 1..MaxRuns : RunDone(r) =>
        \A c \in CourseIdx : \A f \in BothWays(c) :
            Cardinality({j \in LogIdx : /\ log[j].op = "upsert"
                                        /\ log[j].run = r
                                        /\ log[j].art.kind = "file"
                                        /\ log[j].art.id = f}) = 1

\* C5 amended: such a file has at most one upsert in a course's traversal:
\* one when its download succeeded, none otherwise.
C5_AtMostOncePerTraversal ==
    \A r \in 1..MaxRuns, c \in CourseIdx : \A f \in BothWays(c) :
        /\ Cardinality(FileEvents(c, f, r, "upsert")) <= 1
        /\ (FileEvents(c, f, r, "upsert") # {}) <=>
              (\E j \in FileEvents(c, f, r, "download") : log[j].res = "ok")

\* A finished run that reached such a file twice and upserted it once.
C5_Witness ==
    /\ pc = "done"
    /\ \E c \in CourseIdx : \E f \in BothWays(c) :
          /\ Cardinality(FileEvents(c, f, run, "call")) >= 2
          /\ Cardinality(FileEvents(c, f, run, "upsert")) = 1

\* The newest stamp _max_timestamp_from_items finds for export e of course c.
ExportNewest(c, e) ==
    _max_timestamp_from_items(src.exports[c][ExportKinds[e]],
                              Len(ExportKeys[ExportKinds[e]]))

\* An export without a parseable stamp, or with one after the first run.
StampBeyondFirstRun(art) ==
    /\ art.kind = "export"
    /\ LET newest == _parse_iso_utc(ExportNewest(art.course, art.id))
       IN  ~newest.ok \/ Instant(newest) > MaxT + 1

\* C6: when the first run completed with every operation succeeding, the
\* second run, which meets no failure either, makes no Create or Update
\* decision (taken here without force-regeneration, and leaving aside the
\* exports that have no parseable stamp or one after the first run).
C6_SecondRunDecidesNothing ==
    (faults = 0 /\ ~cfg.force_regen_assignments /\ RunDone(1)) =>
        \A i \in LogIdx :
            (log[i].run = 2 /\ IsChange(i)) => StampBeyondFirstRun(log[i].art)

\* The processing of an assignment or module item met a failure in run r: a
\* folder that could not be created, a lookup, request, download or upsert
\* that failed, or a change detection that raised.
ResourceFailed(r) ==
    \E i \in LogIdx :
        /\ log[i].run = r
        /\ log[i].art.kind \in {"assignment", "file", "page"}
        /\ log[i].res \in {"fail", "raise"}

\* C11: a failure met while one assignment or module item is processed does
\* not end the run: main is never left by an exception, so the remaining
\* resources, the pages aggregation, the exports, the remaining courses and
\* the summary follow.
C11_FailureContained == ResourceFailed(run) => pc # "crashed"

\* A Canvas request or download that failed: a request exception, or an
\* error status left after the retries.
TransportFailure(i) ==
    log[i].res = "fail" /\ log[i].op \in {"request", "download"}

\* Every failure met so far is a transport failure.
OnlyTransport == faults = Cardinality({i \in LogIdx : TransportFailure(i)})

RunEvents(r) == {i \in LogIdx : log[i].run = r}

\* Run r is over, and the last thing it did.
RunOver(r) == r < run \/ pc \in {"done", "returned", "crashed"}
LastOf(r) == CHOOSE i \in RunEvents(r) : \A j \in RunEvents(r) : j <= i

\* The course listing succeeded in run r: the course loop was entered.
CourseSyncBegan(r) ==
    /\ RunEvents(r) # {}
    /\ \A i \in RunEvents(r) : log[i].art.kind # "course listing"

\* Run r has an event of this kind for art.
Has(r, op, art) ==
    \E i \in RunEvents(r) : log[i].op = op /\ log[i].art = art

\* Run r reached module item k of course c: a File item was requested, a
\* Page item was begun.
ItemReached(r, c, k) ==
    LET item == src.items[c][k]
    IN  IF IsPageItem(item) THEN Has(r, "begin", Art(c, "page", item.id))
        ELSE \/ Has(r, "call", Art(c, "file", item.id))
             \/ Has(r, "request", Art(c, "file", item.id))

\* Run r resolved every file link of the body of Page item k of course c,
\* when it received the page and went on to scan its body.
LinksReached(r, c, k) ==
    LET item == src.items[c][k]
        art == Art(c, "page", item.id)
        scanned == /\ IsPageItem(item)
                   /\ ~Has(r, "request", art)
                   /\ \A i \in RunEvents(r) :
                         log[i].art = art => log[i].res # "raise"
    IN  scanned =>
            \A n \in 1..Len(BodyLinks(item.pd.body)) :
                LET f == BodyLinks(item.pd.body)[n]
                IN  \/ Has(r, "call", Art(c, "file", f))
                    \/ Has(r, "request", Art(c, "file", f))

\* Run r went through all of course c: every assignment and module item of a
\* listing that was received, the file links of every page that was
\* received, the pages aggregation and every export.
CourseCovered(r, c) ==
    /\ \/ Has(r, "request", Art(c, "assignment listing", 0))
       \/ \A k \in 1..Len(src.assignments[c]) :
              Has(r, "begin", Art(c, "assignment", src.assignments[c][k].id))
    /\ \/ Has(r, "request", Art(c, "module listing", 0))
       \/ Has(r, "request", Art(c, "item listing", 0))
       \/ \A k \in 1..Len(src.items[c]) :
              ItemReached(r, c, k) /\ LinksReached(r, c, k)
    /\ Has(r, "begin", Art(c, "pages", 0))
    /\ \A e \in 1..Len(ExportKinds) : Has(r, "begin", Art(c, "export", e))

\* C12: once the course loop is entered, a transport failure of a Canvas
\* call never ends the run and costs the one resource it was made for.  A
\* run in which nothing but transport failures happened ends either with the
\* summary printed, after every course and every remaining resource was gone
\* through, or by the exception of a change detection; the latter is the
\* only way main is left by an exception.
C12_TransportFailureNeverEndsRun ==
    /\ pc = "crashed" => log[LastOf(run)].res = "raise"
    /\ \A r \in 1..run :
          (OnlyTransport /\ RunOver(r) /\ CourseSyncBegan(r)) =>
              \/ log[LastOf(r)].res = "raise"
              \/ RunDone(r) /\ \A c \in CourseIdx : CourseCovered(r, c)

\* The configuration is one main cannot run with: no file, a required
\* setting missing, or a storage kind other than the two.
FatalConfig ==
    \/ ~cfg.file
    \/ ~({"API_URL", "API_KEY", "STORAGE_TYPE"} \subseteq cfg.keys)
    \/ storage_type \notin {"local", "google_drive"}
    \/ storage_type = "google_drive" /\ "ROOT_FOLDER_NAME" \notin cfg.keys
    \/ storage_type = "local" /\ "LOCAL_ROOT_DIR" \notin cfg.keys

\* C13: with such a configuration main returns at once: no request has been
\* made, no destination folder or artifact created, and the scratch
\* directory is neither made nor emptied.
C13_FatalConfigTouchesNothing ==
    [][(pc = "start" /\ FatalConfig) =>
           /\ pc' = "returned"
           /\ calls' = 0
           /\ UNCHANGED <<dest, folders, scratch, scratch_dir, faults, log>>]_vars

\* main returned on a storage kind it does not know and left the scratch
\* directory of an earlier run as it found it.
C13_Witness ==
    /\ pc = "returned"
    /\ cfg.file /\ cfg.keys = ConfigKeys /\ storage_type = "dropbox"
    /\ calls = 0
    /\ scratch = LeftOver

\* C14: between two resources the scratch directory holds no artifact that
\* was handed to an upsert of the run, whether the upsert succeeded or not.
C14_NoLeftoverAfterUpsert ==
    \A i \in RunEvents(run) :
        log[i].op = "upsert" =>
            \A file \in scratch : file.name # log[i].at[2]

\* Run r made the scratch directory: every event of a run comes after that.
ScratchMade(r) == RunEvents(r) # {}

\* C15: when main has returned from a run in which it made the scratch
\* directory, after the full sync or without a course to sync, the
\* directory is removed.
C15_ScratchRemovedOnReturn ==
    (pc \in {"done", "returned"} /\ ScratchMade(run)) => ~scratch_dir

\* The upserts of the current run that succeeded, in order.
IsUpsertDone(event) ==
    event.run = run /\ event.op = "upsert" /\ event.res = "ok"

UpsertsDone == SelectSeq(log, IsUpsertDone)

\* C16: the summary has one entry for every upsert of the run that
\* succeeded, and no other: entry n is for the n-th of them, under the name
\* of its course and labelled with the folder the artifact went to, and
\* tells its filename and whether it was created or updated.
C16_SummaryListsEveryUpsert ==
    /\ Len(summary) = Len(UpsertsDone)
    /\ \A n \in 1..Len(summary) :
          /\ summary[n].course_name = src.courses[UpsertsDone[n].art.course].name
          /\ summary[n].dest_label = UpsertsDone[n].at[1]
          /\ summary[n].filename = UpsertsDone[n].at[2]
          /\ summary[n].action \in {"created", "updated"}

\* A completed run that upserted a file, a PDF and an export, in both
\* courses.
C16_Witness ==
    /\ pc = "done"
    /\ \A kind \in {"file", "assignment", "export"} :
          \E n \in 1..Len(UpsertsDone) : UpsertsDone[n].art.kind = kind
    /\ \A c \in CourseIdx :
          \E n \in 1..Len(UpsertsDone) : UpsertsDone[n].art.course = c

\* The entries of the summary for course 1 under a label, and those for a
\* filename.
EntriesUnder(dest_label) ==
    {n \in 1..Len(summary) :
        /\ summary[n].course_name = CourseName[1]
        /\ summary[n].dest_label = dest_label}

EntriesFor(filename) ==
    {n \in 1..Len(summary) :
        /\ summary[n].course_name = CourseName[1]
        /\ summary[n].filename = filename}

\* Course 1 is synced already, its assignment has no file link and was
\* updated since, and its file 1 is as it was.
UpdatedAssignmentUnchangedFile ==
    /\ src.assignments[1][1].updated_at = NewStamp
    /\ src.assignments[1][1].description = <<>>
    /\ src.files[1].updated_at = OldStamp
    /\ \E i \in RunEvents(1) :
          /\ log[i].art = Art(1, "assignment", 1)
          /\ log[i].op = "lookup" /\ log[i].res = "found"

\* C17: the run on such a course, with every operation succeeding, ends
\* with exactly one summary entry under the label of the assignment and none
\* for the file.
C17_OneEntryForTheAssignment ==
    (/\ run = 1 /\ faults = 0
     /\ pc \in {"done", "returned", "crashed"}
     /\ UpdatedAssignmentUnchangedFile) =>
        /\ pc = "done"
        /\ Cardinality(EntriesUnder(<<CourseName[1], <<"Assignments">>,
                                      sanitize_filename(AssignmentName)>>)) = 1
        /\ EntriesFor(FileName[1]) = {}

\* The artifacts of a folder, and what identifies them: the id on Drive,
\* the path locally.
InFolder(store, folder) == {d \in store : d.folder = folder}
Identities(artifacts) == {<<d.id, d.folder, d.name>> : d \in artifacts}

\* The upserts that succeeded in the step.
NewUpsertsDone ==
    {j \in NewEvents : log'[j].op = "upsert" /\ log'[j].res = "ok"}

\* The upsert of event j of the step replaced an artifact: on Drive it was
\* given the id the lookup found (the decision was Update), locally the
\* path was there.
Replacing(j) ==
    IF storage_type = "google_drive"
    THEN \E i \in NewEvents :
            /\ i < j /\ log'[i].art = log'[j].art
            /\ log'[i].op = "decide" /\ log'[i].res = "Update"
    ELSE \E d \in InFolder(dest, log'[j].at[1]) : d.name = log'[j].at[2]

\* C19: a step with one successful upsert changes the destination in one
\* artifact of one folder.  Without an existing id (Drive) or path (local)
\* the folder has one artifact more, named filename and with an identity
\* that was not there; otherwise the folder has the same number of
\* artifacts with the same identities, and the one named filename has the
\* content written now.
C19_UpsertAddsOrReplaces ==
    [][Cardinality(NewUpsertsDone) = 1 =>
          LET j == CHOOSE k \in NewUpsertsDone : TRUE
              folder == log'[j].at[1]
              filename == log'[j].at[2]
              before == InFolder(dest, folder)
              after == InFolder(dest', folder)
          IN  /\ dest' \ after = dest \ before
              /\ Cardinality(after \ before) = 1
              /\ \A d \in after \ before :
                    d.name = filename /\ d.modified_time = WrittenStamp
              /\ IF Replacing(j)
                 THEN /\ Cardinality(after) = Cardinality(before)
                      /\ Identities(after) = Identities(before)
                 ELSE /\ Cardinality(after) = Cardinality(before) + 1
                      /\ before \subseteq after
                      /\ Identities(after \ before) \cap Identities(dest) = {}]_vars

\* A Drive file that was replaced under the id it had, in a destination
\* that holds as many artifacts as before the run.
C19_Witness ==
    /\ storage_type = "google_drive"
    /\ \E i, j \in RunEvents(run) :
          /\ i < j /\ log[i].art = log[j].art
          /\ log[i].op = "decide" /\ log[i].res = "Update"
          /\ log[j].op = "upsert" /\ log[j].res = "ok"
          /\ \E d \in dest :
                /\ d.folder = log[j].at[1] /\ d.name = log[j].at[2]
                /\ d.modified_time = WrittenStamp
                /\ d.id < nextId

\* A name without any of the characters sanitize_filename removes.
Sanitized(name) == \A k \in 1..Len(name) : name[k] \notin IllegalChars

\* C20: every name the run uses for a destination folder, for a destination
\* file or for a file of the scratch directory is free of those characters.
C20_NamesAreSanitized ==
    /\ \A i \in LogIdx :
          log[i].at # <<>> =>
              /\ \A k \in 1..Len(log[i].at[1]) : Sanitized(log[i].at[1][k])
              /\ Sanitized(log[i].at[2])
    /\ \A file \in scratch : Sanitized(file.name)

\* The phases of a course in the order of the claim, and the kinds of
\* artifact each works on.
PhaseRank ==
    [course |-> 0, assignments |-> 1, modules |-> 2, items |-> 2, pages |-> 3,
     exports |-> 4]

Phases == DOMAIN PhaseRank

PhaseKinds ==
    [course |-> {"assignment listing"},
     assignments |-> {"assignment", "file"},
     modules |-> {"module listing", "item listing"},
     items |-> {"file", "page"},
     pages |-> {"pages", "page listing", "pages module listing",
                "pages item listing", "page detail"},
     exports |-> {"export", "export listing"}]

\* The summary was printed in the current run.
Printed(events) ==
    {i \in DOMAIN events :
        events[i].op = "print_summary" /\ events[i].run = run}

------------------------------------------------------------\* The positions of main inside the traversal of a course.
Traversal == {"assignments", "modules", "items", "pages", "exports"}

\* The first call of process_canvas_file for file f in course c of run r.
FirstCall(c, f, r) ==
    LET calls_of == FileEvents(c, f, r, "call")
    IN  CHOOSE i \in calls_of : \A j \in calls_of : i <= j

\* C27: the processed-id set is empty when the traversal of a course
\* starts, only grows during it, and is not shared with the next course: the
\* first call for a file in a course processes it (a lookup follows), also
\* when an earlier course of the same run processed the same id.
C27_ProcessedSetPerCourse ==
    [][/\ (pc = "course" /\ pc' \in Traversal) =>
              processed_canvas_file_ids' = {}
       /\ (pc \in Traversal /\ pc' \in Traversal) =>
              processed_canvas_file_ids \subseteq processed_canvas_file_ids'
       /\ \A c \in CourseIdx, f \in FileIds :
              (FileEvents(c, f, run, "call")' # {} /\ src.files[f].url) =>
                  LET i == FirstCall(c, f, run)'
                  IN  /\ log'[i].res = "process"
                      /\ \E j \in FileEvents(c, f, run, "lookup")' : j > i]_vars

\* File 1 was processed and upserted in course 1 and again in course 2 of
\* the same run.
C27_Witness ==
    /\ pc = "done"
    /\ \A c \in CourseIdx :
          /\ \E i \in FileEvents(c, 1, run, "call") : log[i].res = "process"
          /\ FileEvents(c, 1, run, "upsert") # {}

\* The events of file f in course c of run r that name a destination: the
\* decision and the upsert.
Destined(c, f, r) == FileEvents(c, f, r, "decide") \cup FileEvents(c, f, r, "upsert")

\* The calls of process_canvas_file in course c of run r, for any file.
CourseCalls(c, r) ==
    {j \in LogIdx : log[j].op = "call" /\ log[j].art.course = c /\ log[j].run = r}

IsAssignmentFolder(folder) == Len(folder) = 3 /\ folder[2] = <<"Assignments">>

\* C37: within one course of a run every decision and every upsert of a
\* Canvas file id names the folder of the first call of process_canvas_file
\* for that id, so the id is written to at most one folder; every later
\* call for the id, whatever its folder, returns without writing; and the
\* calls for assignment-description links precede those for module items
\* and page-body links.
C37_FirstPathsFolderOnly ==
    \A c \in CourseIdx, r \in 1..MaxRuns :
        /\ \A f \in FileIds :
              /\ \A j \in Destined(c, f, r) :
                    /\ FileEvents(c, f, r, "call") # {}
                    /\ FirstCall(c, f, r) < j
                    /\ log[j].at[1] = log[FirstCall(c, f, r)].at[1]
              /\ \A i \in FileEvents(c, f, r, "call") :
                    i # FirstCall(c, f, r) =>
                        /\ log[i].res = "return"
                        /\ (i < Len(log) /\ log[i + 1].art = log[i].art) =>
                              log[i + 1].op = "call"
        /\ \A i, j \in CourseCalls(c, r) :
              (i < j /\ IsAssignmentFolder(log[j].at[1])) =>
                  IsAssignmentFolder(log[i].at[1])

\* A finished run on the local backend: file 2, linked by the assignment
\* and by the page, was written to the assignment's folder, and the call
\* for the page's link returned; nothing of its name is in the page's folder.
C37_Witness ==
    /\ pc = "done" /\ storage_type = "local"
    /\ \E i \in FileEvents(1, 2, run, "call"), k \in FileEvents(1, 2, run, "call"),
          j \in FileEvents(1, 2, run, "upsert") :
          /\ i = FirstCall(1, 2, run) /\ i < j /\ j < k
          /\ IsAssignmentFolder(log[i].at[1]) /\ log[i].res = "process"
          /\ log[j].res = "ok" /\ log[j].at[1] = log[i].at[1]
          /\ ~IsAssignmentFolder(log[k].at[1]) /\ log[k].res = "return"
          /\ \A d \in dest : d.name = FileName[2] => d.folder = log[i].at[1]

\* In run r the PDF of art was decided Skip, or its generation or its
\* upsert failed.
PdfSkippedOrFailed(r, art) ==
    \E i \in RunEvents(r) :
        /\ log[i].art = art
        /\ \/ log[i].op = "decide" /\ log[i].res = "Skip"
           \/ log[i].op \in {"render", "upsert"} /\ log[i].res = "fail"

\* Run r resolved every one of these file links of course c: the file's
\* record was requested (and failed) or handed to process_canvas_file.
AllResolved(r, c, links) ==
    \A n \in 1..Len(links) :
        \/ Has(r, "call", Art(c, "file", links[n]))
        \/ Has(r, "request", Art(c, "file", links[n]))

\* The same for the assignments alone.
AssignmentLinksResolved ==
    \A r \in 1..run, c \in CourseIdx :
        \A k \in 1..Len(src.assignments[c]) :
            PdfSkippedOrFailed(r, Art(c, "assignment", src.assignments[c][k].id))
                => AllResolved(r, c, src.assignments[c][k].description)

\* C28: when the PDF of an assignment or of a module page is skipped, or
\* its generation or upsert fails, every file link of the body is still
\* resolved and handed to process_canvas_file, and a link that cannot be
\* resolved does not keep the later links of the body from being resolved.
C28_LinksResolvedWhateverThePdf ==
    /\ AssignmentLinksResolved
    /\ \A r \in 1..run, c \in CourseIdx :
          \A k \in 1..Len(src.items[c]) :
              LET item == src.items[c][k]
              IN  (IsPageItem(item)
                   /\ PdfSkippedOrFailed(r, Art(c, "page", item.id)))
                      => AllResolved(r, c, BodyLinks(item.pd.body))

\* The derived documents: the PDF of an assignment, of a module page, and
\* the merged pages PDF of a course.
DerivedKinds == {"assignment", "page", "pages"}

\* The events of run r about the derived document art.
DocEvents(r, art, op) ==
    {i \in RunEvents(r) : log[i].art = art /\ log[i].op = op}

\* Run r looked the document up and regenerated it: rendered it and, when
\* the rendering succeeded, upserted it.
Regenerated(r, art) ==
    /\ DocEvents(r, art, "render") # {}
    /\ (\E i \in DocEvents(r, art, "render") : log[i].res = "ok")
           => DocEvents(r, art, "upsert") # {}

\* Run r regenerated art only on a decision Create or Update.
OnlyOnCreateOrUpdate(r, art) ==
    DocEvents(r, art, "render") # {} =>
        \E i \in DocEvents(r, art, "decide") : log[i].res \in {"Create", "Update"}

DerivedDocs ==
    {log[i].art : i \in {j \in LogIdx : /\ log[j].op = "lookup"
                                        /\ log[j].art.kind \in DerivedKinds}}

\* C29 as stated: with the override on, every derived document a run looks
\* up is regenerated and upserted, whatever its kind; with it off, only on
\* Create or Update.
C29_ForceCoversEveryDocument ==
    \A r \in 1..run, art \in DerivedDocs :
        DocEvents(r, art, "lookup") # {} =>
            IF cfg.force_regen_assignments THEN Regenerated(r, art)
            ELSE OnlyOnCreateOrUpdate(r, art)

\* C29 amended: the override covers the assignment PDFs only.  With it on,
\* every assignment PDF a run looks up is regenerated and upserted and none
\* is skipped; with it off, only on Create or Update.  A module page PDF and
\* the merged pages PDF are regenerated only on Create or Update, whether
\* the override is on or off.
C29_ForceCoversAssignmentsOnly ==
    \A r \in 1..run, art \in DerivedDocs :
        DocEvents(r, art, "lookup") # {} =>
            IF cfg.force_regen_assignments /\ art.kind = "assignment"
            THEN /\ Regenerated(r, art)
                 /\ \A i \in DocEvents(r, art, "decide") : log[i].res # "Skip"
            ELSE OnlyOnCreateOrUpdate(r, art)

\* A finished run with the override on over an unchanged, synced source: the
\* assignment PDF was rendered and upserted again, the PDF of the module
\* page and the merged pages PDF were skipped.
C29_Witness ==
    /\ pc = "done" /\ cfg.force_regen_assignments
    /\ \E i \in DocEvents(run, Art(1, "assignment", 1), "lookup") :
          log[i].res = "found"
    /\ \E i \in DocEvents(run, Art(1, "assignment", 1), "upsert") :
          log[i].res = "ok"
    /\ \E i \in DocEvents(run, Art(1, "page", 1), "decide") : log[i].res = "Skip"
    /\ \E i \in DocEvents(run, Art(1, "pages", 0), "decide") : log[i].res = "Skip"

\* The same on the local backend alone, where the destination is a
\* directory tree.
LocalNamesUnique == storage_type = "local" => ~HasDuplicates

\* C33: no destination folder comes to hold two artifacts of one filename:
\* an artifact that is already there is updated in place, never created a
\* second time, also when the lookup of its metadata fails.  (No folder of
\* an initial destination holds two.)
C33_NoSecondCopy == ~HasDuplicates

\* The entries a step adds to the summary.
NewEntries == (Len(summary) + 1)..Len(summary')

\* An artifact of the entry's filename is in the folder of its label.
EntryExists(store, entry) ==
    \E d \in store : d.folder = entry.dest_label /\ d.name = entry.filename

\* C34: a summary entry says 'updated' exactly when an artifact of that
\* filename was in the destination folder before the upsert, and 'created'
\* exactly when none was.  (No step upserts the same name into the same
\* folder twice, so before the upsert is before the step.)
C34_ActionTellsWhatWasThere ==
    [][\A n \in NewEntries :
          summary'[n].action = IF EntryExists(dest, summary'[n])
                               THEN "updated" ELSE "created"]_vars

\* The same for the steps in which no lookup of metadata failed.
ActionRightAfterLookup ==
    [][faults' = faults =>
          \A n \in NewEntries :
              summary'[n].action = IF EntryExists(dest, summary'[n])
                                   THEN "updated" ELSE "created"]_vars

----------------
(* Folders, one call at a time *)

\* Here a Drive store is a set of folders [id, name, parent], with parent 0
\* for the root and any number of folders of one name under one parent; a
\* local store is the set of the directories that exist, as paths.  None is 0.
MaxFolderIds == 2
FolderNames == {<<"a">>, <<"a", "'">>}
NoFolder == 0

RECURSIVE escape_quotes(_)
\* Line 617: folder_name.replace("'", "\\'").
escape_quotes(name) ==
    IF name = <<>> THEN <<>>
    ELSE (IF Head(name) = "'" THEN <<"\\", "'">> ELSE <<Head(name)>>)
             \o escape_quotes(Tail(name))

RECURSIVE query_string(_)
\* The text a quoted string of a Drive query stands for: a backslash gives
\* the character after it.
query_string(text) ==
    IF text = <<>> THEN <<>>
    ELSE IF Head(text) = "\\" /\ Len(text) >= 2
    THEN <<text[2]>> \o query_string(SubSeq(text, 3, Len(text)))
    ELSE <<Head(text)>> \o query_string(Tail(text))

\* Lines 618-624: the folders the list request gives for the query.
listed_folders(store, folder_name, parent_id) ==
    {f \in store : /\ f.name = query_string(escape_quotes(folder_name))
                   /\ f.parent = parent_id}

FolderIds(store) == {f.id : f \in store}

\* The mutant creates without looking.
drive_get_or_create_folder_blind(store, folder_name, parent_id, first, failure) ==
    LET id == SetMax(FolderIds(store) \cup {0}) + 1
    IN  [ret |-> id,
         store |-> store \cup {[id |-> id, name |-> folder_name, parent |-> parent_id]}]

\* Lines 614-639, on a Drive store.  first tells which of several folders
\* the response lists first; failure is the request that raises HttpError.
drive_get_or_create_folder(store, folder_name, parent_id, first, failure) ==
    LET folders_found == listed_folders(store, folder_name, parent_id)
        ids == {f.id : f \in folders_found}
        id == SetMax(FolderIds(store) \cup {0}) + 1
    IN  IF failure = "list" THEN [ret |-> NoFolder, store |-> store]
        ELSE IF folders_found # {}
        THEN [ret |-> IF first = "lowest" THEN SetMin(ids) ELSE SetMax(ids),
              store |-> store]
        ELSE IF failure = "create" THEN [ret |-> NoFolder, store |-> store]
        ELSE [ret |-> id,
              store |-> store \cup {[id |-> id, name |-> folder_name,
                                     parent |-> parent_id]}]

\* os.makedirs: the directory and those above it.
makedirs(dirs, path) == dirs \cup {SubSeq(path, 1, k) : k \in 1..Len(path)}

\* Lines 695-705, on a local store.
local_get_or_create_folder(dirs, local_root_dir, folder_name, parent_path) ==
    LET folder_path == IF parent_path # <<>> THEN Append(parent_path, folder_name)
                       ELSE Append(local_root_dir, folder_name)
    IN  [ret |-> folder_path,
         store |-> IF folder_path \notin dirs THEN makedirs(dirs, folder_path)
                   ELSE dirs]

LocalRoot == << <<"r">> >>
LocalParent == << <<"r">>, <<"c">> >>

DriveStores ==
    {store \in SUBSET [id : 1..MaxFolderIds, name : FolderNames, parent : 0..1] :
        \A f, g \in store : f.id = g.id => f = g}

LocalStores ==
    {{LocalRoot, LocalParent} \cup made :
        made \in SUBSET {Append(d, n) : d \in {LocalRoot, LocalParent},
                                        n \in FolderNames}}

FolderInit ==
    /\ \/ fin \in [backend : {"google_drive"}, store : DriveStores,
                   name : FolderNames, parent : 0..1,
                   first : {"lowest", "highest"},
                   failures : [1..2 -> {"none", "list", "create"}]]
       \/ fin \in [backend : {"local"}, store : LocalStores,
                   name : FolderNames, parent : {<<>>, LocalParent},
                   first : {"lowest"}, failures : [1..2 -> {"none"}]]
    /\ fout = <<>>
    /\ fpc = "in"
    /\ MainIdle

\* One call of the backend's function on the store the call before left.
FolderCall ==
    /\ fpc \in {"in", "once"}
    /\ LET store == IF fpc = "in" THEN fin.store ELSE fout[1].store
           k == Len(fout) + 1
       IN  fout' = Append(fout,
                IF fin.backend = "google_drive"
                THEN drive_get_or_create_folder(store, fin.name, fin.parent,
                                                fin.first, fin.failures[k])
                ELSE local_get_or_create_folder(store, LocalRoot, fin.name,
                                                fin.parent))
    /\ fpc' = IF fpc = "in" THEN "once" ELSE "twice"
    /\ UNCHANGED <<fin, mainvars>>

FolderNext == FolderCall

SpecFolder == FolderInit /\ [][FolderNext]_vars

\* The store call k found.
StoreBefore(k) == IF k = 1 THEN fin.store ELSE fout[k - 1].store

\* The descriptors of the folders called fin.name under fin.parent in a
\* store: ids on Drive, the path locally.
Descriptors(store) ==
    IF fin.backend = "google_drive"
    THEN {f.id : f \in {g \in store : g.name = fin.name /\ g.parent = fin.parent}}
    ELSE {d \in store :
             d = Append(IF fin.parent = <<>> THEN LocalRoot ELSE fin.parent,
                        fin.name)}

\* Call k was made and returned a descriptor (the local function always does).
Succeeded(k) ==
    /\ k <= Len(fout)
    /\ fin.backend = "google_drive" => fout[k].ret # NoFolder

----------------------------------------------------------------------------
(* sanitize_filename on its own *)

MaxName == 5
NameChars == {"a", "b", " ", "\t", "?", "/"}

RECURSIVE NamesUpTo(_)
NamesUpTo(n) ==
    IF n = 0 THEN {<<>>}
    ELSE LET shorter == NamesUpTo(n - 1)
         IN  shorter \cup {Append(name, ch) : name \in shorter, ch \in NameChars}

SanInit ==
    /\ fin \in NamesUpTo(MaxName)
    /\ fout = <<>>
    /\ fpc = "in"
    /\ MainIdle

SanApply ==
    /\ fpc = "in"
    /\ fout' = sanitize_filename(fin)
    /\ fpc' = "out"
    /\ UNCHANGED <<fin, mainvars>>

SanNext == SanApply

SpecSan == SanInit /\ [][SanNext]_vars

\* The positions of the input that hold none of the nine characters, and
\* among them those that hold no whitespace.
Kept == {k \in 1..Len(fin) : fin[k] \notin IllegalChars}
Solid == {k \in Kept : fin[k] \notin Whitespace}

\* The kept positions from the first to the last that is not whitespace.
Core == {k \in Kept : Solid # {} /\ SetMin(Solid) <= k /\ k <= SetMax(Solid)}

\* The n-th position of Core in the order of the input.
CoreAt(n) == CHOOSE k \in Core : Cardinality({j \in Core : j <= k}) = n

\* C21: the result has none of the nine characters and no whitespace at
\* either end, and is made of the other characters of the input in their
\* order: exactly those from the first to the last kept character that is
\* not whitespace.
C21_SanitizeRemovesAndTrims ==
    fpc = "out" =>
        /\ Len(fout) = Cardinality(Core)
        /\ \A n \in 1..Len(fout) : fout[n] = fin[CoreAt(n)]

\* A name whose removed character stood before whitespace that is trimmed
\* in turn, with whitespace kept inside.
C21_Witness ==
    /\ fpc = "out"
    /\ fin = <<"?", " ", "a", "\t", "b">>
    /\ fout = <<"a", "\t", "b">>

----------------------------------------------------------------------------
(* The assembly of an assignment PDF *)

\* A fragment is a piece of HTML handed to html_to_pdf_elements or to
\* Paragraph: the long description of a rubric criterion or of a rating, or
\* the assignment description.  raises tells whether rendering it raises.
MaxCriteria == 3
Fragments == [kind : {"criterion", "rating"}, raises : BOOLEAN]

RECURSIVE rubric_content(_)
\* Lines 983-1121, the loop inside the try: the elements of the fragments up
\* to the first that raises, and whether one raised.
rubric_content(rubric) ==
    IF rubric = <<>> THEN [content |-> <<>>, raised |-> FALSE]
    ELSE IF Head(rubric).raises THEN [content |-> <<>>, raised |-> TRUE]
    ELSE LET rest == rubric_content(Tail(rubric))
         IN  [content |-> <<Head(rubric).kind>> \o rest.content,
              raised |-> rest.raised]

\* Lines 940-1145: the content handed to doc.build, or the exception that
\* leaves the block for the handler at line 1183 (built = FALSE): the rubric
\* loop has a handler of its own (1122-1130), the description has none.
assignment_pdf(rubric, description) ==
    LET head == <<"title", "due", "points">>
        rows == rubric_content(rubric)
        rubric_part == IF rubric = <<>> THEN <<>>
                       ELSE <<"rubric">> \o rows.content
                                \o (IF rows.raised THEN <<"error note">> ELSE <<>>)
    IN  IF description = "raises" THEN [built |-> FALSE, content |-> <<>>]
        ELSE [built |-> TRUE,
              content |-> head \o rubric_part \o <<"hr">>
                              \o (IF description = "renders"
                                  THEN <<"description">> ELSE <<>>)]

PdfInit ==
    /\ fin \in [rubric : UNION {[1..n -> Fragments] : n \in 0..MaxCriteria},
                description : {"none", "renders", "raises"}]
    /\ fout = <<>>
    /\ fpc = "in"
    /\ MainIdle

PdfApply ==
    /\ fpc = "in"
    /\ fout' = assignment_pdf(fin.rubric, fin.description)
    /\ fpc' = "out"
    /\ UNCHANGED <<fin, mainvars>>

PdfNext == PdfApply

SpecPdf == PdfInit /\ [][PdfNext]_vars

\* A fragment of the input raised while it was rendered.
FragmentRaised ==
    \/ fin.description = "raises"
    \/ \E k \in 1..Len(fin.rubric) : fin.rubric[k].raises

\* C23: whichever fragment raises, the document is built (and so handed to
\* the upsert), and it carries an error note or a plain text in place of a
\* fragment that raised.
C23_FragmentErrorKeepsDocument ==
    fpc = "out" =>
        /\ fout.built
        /\ FragmentRaised =>
              \E n \in 1..Len(fout.content) :
                  fout.content[n] \in {"error note", "plain text"}

----------------------------------------------------------------------------
(* The chunk size of an upload to Drive *)

DEFAULT_DRIVE_CHUNK_SIZE_MB == 8
MaxMb == 4

max(a, b) == IF a >= b THEN a ELSE b

\* Line 670.
chunk_bytes(drive_chunk_size_mb) ==
    max(256 * 1024, drive_chunk_size_mb * 1024 * 1024)

\* Lines 2405-2423: DRIVE_CHUNK_SIZE_MB of [PERFORMANCE], the default when
\* the key is absent or when the int() or float() of any key of the section
\* raises.
drive_chunk_size_mb_of(config) ==
    IF config.malformed \/ ~config.given THEN DEFAULT_DRIVE_CHUNK_SIZE_MB
    ELSE config.DRIVE_CHUNK_SIZE_MB

\* The calls of upload_file_to_drive: line 844 passes drive_chunk_size_mb,
\* lines 1151, 1341, 1643 and 2720 leave the parameter to its default.
UploadCallers ==
    {"process_canvas_file", "process_canvas_assignment",
     "_export_json_resource", "process_course_pages", "main"}

passed_chunk_size_mb(caller, drive_chunk_size_mb) ==
    IF caller = "process_canvas_file" THEN drive_chunk_size_mb
    ELSE DEFAULT_DRIVE_CHUNK_SIZE_MB

PerformanceConfigs ==
    {[given |-> FALSE, DRIVE_CHUNK_SIZE_MB |-> 0, malformed |-> b] :
        b \in BOOLEAN}
    \cup {[given |-> TRUE, DRIVE_CHUNK_SIZE_MB |-> mb, malformed |-> b] :
             mb \in (0 - MaxMb)..MaxMb, b \in BOOLEAN}

ChunkInit ==
    /\ fin \in [config : PerformanceConfigs, caller : UploadCallers]
    /\ fout = <<>>
    /\ fpc = "in"
    /\ MainIdle

ChunkApply ==
    /\ fpc = "in"
    /\ fout' = chunk_bytes(passed_chunk_size_mb(fin.caller,
                               drive_chunk_size_mb_of(fin.config)))
    /\ fpc' = "out"
    /\ UNCHANGED <<fin, mainvars>>

ChunkNext == ChunkApply

SpecChunk == ChunkInit /\ [][ChunkNext]_vars

\* C26: with a well-formed configuration every upload to Drive uses
\* max(262144, mb * 1048576) bytes for the configured mb, zero and negative
\* included, never less than 256 KiB; without the key it uses 8 MiB.
C26_ChunkBytesFloor ==
    (fpc = "out" /\ ~fin.config.malformed) =>
        /\ fout >= 262144
        /\ fin.config.given =>
              fout = max(262144, fin.config.DRIVE_CHUNK_SIZE_MB * 1048576)
        /\ ~fin.config.given => fout = 8 * 1048576

----------------------------------------------------------------------------
(* html_to_pdf_elements *)

\* A parsed document is a sequence of nodes.  A text node has the tag
\* "#text" and a text, a sequence of characters; a tag has children, and a
\* link its href.
Text(text) == [tag |-> "#text", text |-> text, href |-> <<>>, kids |-> <<>>]
El(tag, kids) == [tag |-> tag, text |-> <<>>, href |-> <<>>, kids |-> kids]
Link(href, kids) == [tag |-> "a", text |-> <<>>, href |-> href, kids |-> kids]

\* str.strip() leaves nothing of these characters.
IsBlank(text) == \A k \in 1..Len(text) : text[k] \in Whitespace

\* html.escape(text, quote=False), character by character.
html_escape(text) ==
    [k \in 1..Len(text) |->
        IF text[k] = "&" THEN "&amp;"
        ELSE IF text[k] = "<" THEN "&lt;"
        ELSE IF text[k] = ">" THEN "&gt;"
        ELSE text[k]]

\* The pieces of the markup handed to Paragraph: an escaped text inside the
\* font tag of a style ("" when there is no current style), a text taken
\* unescaped by get_text, a line break, the opening and closing link tag.
TextPiece(text, current_style) ==
    [piece |-> "text", text |-> text, font |-> current_style, href |-> <<>>]
RawPiece(text) == [piece |-> "raw", text |-> text, font |-> "", href |-> <<>>]
BrPiece == [piece |-> "<br/>", text |-> <<>>, font |-> "", href |-> <<>>]
LinkPiece(href) == [piece |-> "<link>", text |-> <<>>, font |-> "", href |-> href]
EndLinkPiece == [piece |-> "</link>", text |-> <<>>, font |-> "", href |-> <<>>]

\* The flowables.
Paragraph(content, style) ==
    [type |-> "Paragraph", content |-> content, style |-> style,
     items |-> <<>>, height |-> 0]
Spacer(height) ==
    [type |-> "Spacer", content |-> <<>>, style |-> "", items |-> <<>>,
     height |-> height]
ListFlowable(list_items, bulletType) ==
    [type |-> "ListFlowable", content |-> <<>>, style |-> bulletType,
     items |-> list_items, height |-> 0]

\* Lines 193-198: the font of the styles that name one.
fontName(style) ==
    IF style \in {"strong", "b", "h5", "h6"} THEN "Helvetica-Bold"
    ELSE IF style \in {"em", "i"} THEN "Helvetica-Oblique"
    ELSE IF style \in {"code", "pre"} THEN "Courier"
    ELSE "inherited"

\* href.startswith("#")
startswith_hash(href) == href # <<>> /\ Head(href) = "#"

Headings == {"h1", "h2", "h3", "h4", "h5", "h6"}

RECURSIVE get_text(_)
RECURSIVE get_text_all(_)
\* element.get_text(): the texts below the element, unescaped, in order.
get_text(element) ==
    IF element.tag = "#text" THEN element.text ELSE get_text_all(element.kids)

get_text_all(children) ==
    IF children = <<>> THEN <<>>
    ELSE get_text(Head(children)) \o get_text_all(Tail(children))

\* The mutant leaves the spacer out.
block_without_spacer(content, style, height) ==
    IF content # <<>> THEN <<Paragraph(content, style)>> ELSE <<>>

\* What a block leaves in elements: its paragraph and spacer when the
\* content is not blank.
block(content, style, height) ==
    IF content # <<>> THEN <<Paragraph(content, style), Spacer(height)>>
    ELSE <<>>

RECURSIVE process_element(_, _)
RECURSIVE process_children(_, _)
RECURSIVE process_items(_)
\* Lines 226-384.  The result is the returned markup (ret) and what the call
\* appended to elements (out), in the order of the appends.  Markup is a
\* sequence of pieces; it strips to nothing exactly when it has no piece,
\* because a blank text is never returned.
process_element(element, current_style) ==
    LET tag_name == element.tag
    IN  IF tag_name = "#text"
        THEN [ret |-> IF ~IsBlank(element.text)
                      THEN <<TextPiece(html_escape(element.text), current_style)>>
                      ELSE <<>>,
              out |-> <<>>]
        ELSE IF tag_name \in {"p", "div"}
        THEN LET c == process_children(element.kids, current_style)
             IN  [ret |-> <<>>,
                  out |-> c.out \o block(c.ret, IF current_style # ""
                                                THEN current_style
                                                ELSE "Normal", 6)]
        ELSE IF tag_name \in Headings
        THEN LET c == process_children(element.kids, tag_name)
             IN  [ret |-> <<>>, out |-> c.out \o block(c.ret, tag_name, 12)]
        ELSE IF tag_name \in {"strong", "b"}
        THEN process_children(element.kids, "strong")
        ELSE IF tag_name \in {"em", "i"}
        THEN process_children(element.kids, "em")
        ELSE IF tag_name = "u"
        THEN process_children(element.kids, "u")
        ELSE IF tag_name = "br"
        THEN [ret |-> <<BrPiece>>, out |-> <<>>]
        ELSE IF tag_name = "a"
        THEN LET c == process_children(element.kids, current_style)
             IN  IF c.ret # <<>> /\ ~startswith_hash(element.href)
                 THEN [ret |-> <<LinkPiece(element.href)>> \o c.ret
                                  \o <<EndLinkPiece>>,
                       out |-> c.out]
                 ELSE c
        ELSE IF tag_name \in {"ul", "ol"}
        THEN LET c == process_items(element.kids)
             IN  [ret |-> <<>>,
                  out |-> c.out
                          \o IF c.ret # <<>>
                             THEN <<ListFlowable(c.ret, IF tag_name = "ul"
                                                        THEN "bullet" ELSE "1"),
                                    Spacer(6)>>
                             ELSE <<>>]
        ELSE IF tag_name = "li"
        THEN process_children(element.kids, current_style)
        ELSE IF tag_name = "blockquote"
        THEN LET c == process_children(element.kids, "blockquote")
             IN  [ret |-> <<>>, out |-> c.out \o block(c.ret, "blockquote", 6)]
        ELSE IF tag_name \in {"code", "pre"}
        THEN LET content == get_text(element)
             IN  [ret |-> <<>>,
                  out |-> IF ~IsBlank(content)
                          THEN <<Paragraph(<<RawPiece(content)>>, tag_name),
                                 Spacer(6)>>
                          ELSE <<>>]
        ELSE process_children(element.kids, current_style)

\* for child in element.children: content += process_element(child, style).
process_children(children, current_style) ==
    IF children = <<>> THEN [ret |-> <<>>, out |-> <<>>]
    ELSE LET first == process_element(Head(children), current_style)
             rest == process_children(Tail(children), current_style)
         IN  [ret |-> first.ret \o rest.ret, out |-> first.out \o rest.out]

\* Lines 322-333: the direct li children of a list, each a paragraph of
\* list_items (ret) when its content is not blank; other children of the
\* list are not looked at.
process_items(children) ==
    IF children = <<>> THEN [ret |-> <<>>, out |-> <<>>]
    ELSE LET rest == process_items(Tail(children))
         IN  IF Head(children).tag # "li" THEN rest
             ELSE LET li == process_children(Head(children).kids, "li")
                  IN  [ret |-> (IF li.ret # <<>>
                                THEN <<Paragraph(li.ret, "li")>> ELSE <<>>)
                               \o rest.ret,
                       out |-> li.out \o rest.out]

\* Lines 387-405.
is_block_tag(name) ==
    name \in {"p", "div"} \cup Headings
             \cup {"ul", "ol", "li", "blockquote", "pre", "code"}

RECURSIVE top_level_unflushed(_, _, _)
\* The mutant does not flush the buffer before a block.
top_level_unflushed(children, elements, inline_buffer) ==
    IF children = <<>>
    THEN elements \o (IF inline_buffer # <<>>
                      THEN <<Paragraph(inline_buffer, "Normal")>> ELSE <<>>)
    ELSE LET element == Head(children)
             r == process_element(element, "")
         IN  top_level_unflushed(Tail(children), elements \o r.out,
                                 IF is_block_tag(element.tag) THEN inline_buffer
                                 ELSE inline_buffer \o r.ret)

RECURSIVE top_level(_, _, _)
\* Lines 407-425: the loop over soup.children, and the final flush.
top_level(children, elements, inline_buffer) ==
    IF children = <<>>
    THEN elements \o (IF inline_buffer # <<>>
                      THEN <<Paragraph(inline_buffer, "Normal")>> ELSE <<>>)
    ELSE LET element == Head(children)
             r == process_element(element, "")
         IN  IF is_block_tag(element.tag)
             THEN top_level(Tail(children),
                            elements
                              \o (IF inline_buffer # <<>>
                                  THEN <<Paragraph(inline_buffer, "Normal"),
                                         Spacer(6)>>
                                  ELSE <<>>)
                              \o r.out,
                            IF inline_buffer # <<>> THEN <<>> ELSE inline_buffer)
             ELSE top_level(Tail(children), elements \o r.out,
                            inline_buffer \o r.ret)

\* Lines 155-427, after the parse; styles["p"] is base_styles["Normal"].
html_to_pdf_elements(soup) ==
    IF soup = <<>> THEN <<>> ELSE top_level(soup, <<>>, <<>>)

\* The documents: up to MaxTop top-level nodes out of these.  t is a text,
\* lt a text with a character that html.escape replaces, w a blank text.
MaxTop == 3
Digit == <<"1", "2", "3", "4">>

TopNodes ==
    LET t == Text(<<"t">>)
        lt == Text(<<"<">>)
        w == Text(<<" ">>)
        li(kids) == El("li", kids)
    IN  {t, w, lt, El("br", <<>>), El("b", <<t>>), El("b", <<w>>),
         El("span", <<t>>), El("span", <<El("p", <<t>>), t>>),
         Link(<<"#", "x">>, <<t>>), Link(<<"u">>, <<t>>),
         El("h1", <<t>>), El("p", <<t, El("b", <<t>>)>>), El("p", <<w>>),
         El("div", <<El("p", <<t>>), El("p", <<t>>)>>),
         El("p", <<El("code", <<t>>), t>>), El("div", <<t, El("p", <<t>>)>>),
         El("blockquote", <<t>>), El("pre", <<El("code", <<lt>>)>>),
         El("ul", <<li(<<t>>), li(<<t>>), li(<<t>>)>>),
         El("ul", <<li(<<t>>), li(<<w>>)>>), El("ul", <<li(<<w>>)>>),
         El("ul", <<t, li(<<t>>)>>),
         El("ol", <<li(<<t, El("ul", <<li(<<t>>)>>)>>)>>),
         li(<<t>>)}

RECURSIVE Label(_, _)
\* Every text that is not blank is made unique by the position of its node,
\* and ends with a full stop.
Label(element, path) ==
    IF element.tag = "#text"
    THEN IF IsBlank(element.text) THEN element
         ELSE [element EXCEPT !.text = @ \o path \o <<".">>]
    ELSE [element EXCEPT
             !.kids = [k \in 1..Len(element.kids) |->
                          Label(element.kids[k], Append(path, Digit[k]))]]

HtmlInit ==
    /\ \E n \in 0..MaxTop : \E doc \in [1..n -> TopNodes] :
          fin = [k \in 1..n |-> Label(doc[k], <<Digit[k]>>)]
    /\ fout = <<>>
    /\ fpc = "in"
    /\ MainIdle

HtmlApply ==
    /\ fpc = "in"
    /\ fout' = html_to_pdf_elements(fin)
    /\ fpc' = "out"
    /\ UNCHANGED <<fin, mainvars>>

HtmlNext == HtmlApply

SpecHtml == HtmlInit /\ [][HtmlNext]_vars

\* What a reader of the PDF sees of a piece: Paragraph turns the entities of
\* an escaped text back into characters; a text of get_text is as it was.
unescape(text) ==
    [k \in 1..Len(text) |->
        IF text[k] = "&amp;" THEN "&"
        ELSE IF text[k] = "&lt;" THEN "<"
        ELSE IF text[k] = "&gt;" THEN ">"
        ELSE text[k]]

Shown(piece) == IF piece.piece = "text" THEN unescape(piece.text) ELSE piece.text

IsTextPiece(piece) == piece.piece \in {"text", "raw"}

\* The texts of a paragraph, in order.
ParTexts(content) ==
    LET pieces == SelectSeq(content, IsTextPiece)
    IN  [k \in 1..Len(pieces) |-> Shown(pieces[k])]

RECURSIVE Flat(_)
\* The concatenation of a sequence of sequences.
Flat(seqs) == IF seqs = <<>> THEN <<>> ELSE Head(seqs) \o Flat(Tail(seqs))

\* All the characters an emitted element shows.
ShownText(e) ==
    IF e.type = "Paragraph" THEN Flat(ParTexts(e.content))
    ELSE IF e.type = "ListFlowable"
    THEN Flat([k \in 1..Len(e.items) |-> Flat(ParTexts(e.items[k].content))])
    ELSE <<>>

Contains(hay, needle) ==
    \E i \in 1..(Len(hay) - Len(needle) + 1) :
        SubSeq(hay, i, i + Len(needle) - 1) = needle

\* The emitted elements that show this text of the input.
Showing(text) == {i \in 1..Len(fout) : Contains(ShownText(fout[i]), text)}

\* The block-level tags.
BlockTags == {"p", "div"} \cup Headings \cup {"ul", "ol", "blockquote", "code", "pre"}

RECURSIVE LeafTexts(_)
\* The texts of a node that are not blank, in document order.
LeafTexts(element) ==
    IF element.tag = "#text"
    THEN IF IsBlank(element.text) THEN <<>> ELSE <<element.text>>
    ELSE Flat([k \in 1..Len(element.kids) |-> LeafTexts(element.kids[k])])

RECURSIVE InlineTexts(_)
\* Those of them that are not inside a block-level tag.
InlineTexts(element) ==
    IF element.tag = "#text" THEN LeafTexts(element)
    ELSE IF element.tag \in BlockTags THEN <<>>
    ELSE Flat([k \in 1..Len(element.kids) |-> InlineTexts(element.kids[k])])

RECURSIVE Descendants(_)
\* The nodes below a node.
Descendants(element) ==
    UNION {{element.kids[k]} \cup Descendants(element.kids[k]) :
              k \in 1..Len(element.kids)}

HoldsBlock(element) == \E d \in Descendants(element) : d.tag \in BlockTags

TopBlocks == {k \in 1..Len(fin) : fin[k].tag \in BlockTags}

\* The elements that show a text of top-level node k.
ElementsOf(k) ==
    UNION {Showing(LeafTexts(fin[k])[n]) : n \in 1..Len(LeafTexts(fin[k]))}

\* Top-level node k gave exactly one element, followed by a spacer.
OneElementAndSpacer(k) ==
    /\ Cardinality(ElementsOf(k)) = 1
    /\ \A i \in ElementsOf(k) :
          /\ i < Len(fout)
          /\ fout[i + 1].type = "Spacer"
    /\ Len(fin) = 1 => Len(fout) = 2

\* '<h1>Title</h1><p>Hello <b>World</b></p>'
IsExample ==
    /\ Len(fin) = 2
    /\ fin[1].tag = "h1" /\ Len(fin[1].kids) = 1 /\ fin[1].kids[1].tag = "#text"
    /\ fin[2].tag = "p" /\ Len(fin[2].kids) = 2
    /\ fin[2].kids[1].tag = "#text"
    /\ fin[2].kids[2].tag = "b" /\ Len(fin[2].kids[2].kids) = 1
    /\ fin[2].kids[2].kids[1].tag = "#text"

\* One heading with the title, one paragraph with the plain text and the
\* text in the bold font, a spacer after each.
ExampleRendered ==
    /\ Len(fout) = 4
    /\ fout[1].type = "Paragraph" /\ fout[1].style = "h1"
    /\ ParTexts(fout[1].content) = <<fin[1].kids[1].text>>
    /\ fout[2] = Spacer(12)
    /\ fout[3].type = "Paragraph" /\ fout[3].style = "Normal"
    /\ ParTexts(fout[3].content)
           = <<fin[2].kids[1].text, fin[2].kids[2].kids[1].text>>
    /\ fout[3].content[1].font = ""
    /\ fontName(fout[3].content[2].font) = "Helvetica-Bold"
    /\ fout[4] = Spacer(6)

\* The items of a list, and those with a content that is not blank.
IsList(element) ==
    /\ element.tag \in {"ul", "ol"}
    /\ \A k \in 1..Len(element.kids) : element.kids[k].tag = "li"
FilledItems(element) ==
    {k \in 1..Len(element.kids) : InlineTexts(element.kids[k]) # <<>>}

\* A document that is one list of filled items gives one list block with
\* an entry for each, and a spacer.
ListRendered ==
    (Len(fin) = 1 /\ IsList(fin[1]) /\ ~HoldsBlock(fin[1])
       /\ Cardinality(FilledItems(fin[1])) = Len(fin[1].kids)) =>
        /\ Len(fout) = 2
        /\ fout[1].type = "ListFlowable"
        /\ Len(fout[1].items) = Len(fin[1].kids)
        /\ \A k \in 1..Len(fin[1].kids) :
              ParTexts(fout[1].items[k].content) = LeafTexts(fin[1].kids[k])
        /\ fout[2] = Spacer(6)

PlainBlock(k) ==
    /\ k \in TopBlocks
    /\ \/ fin[k].tag \in {"code", "pre"}
       \/ fin[k].tag \notin {"ul", "ol"} /\ ~HoldsBlock(fin[k])
       \/ IsList(fin[k]) /\ ~HoldsBlock(fin[k])

Runs ==
    {run_at \in (1..Len(fin)) \X (1..Len(fin)) :
        /\ run_at[1] <= run_at[2]
        /\ \A k \in run_at[1]..run_at[2] : ~is_block_tag(fin[k].tag)
        /\ run_at[1] = 1 \/ is_block_tag(fin[run_at[1] - 1].tag)
        /\ run_at[2] = Len(fin) \/ is_block_tag(fin[run_at[2] + 1].tag)}

\* The inline texts of a run, in document order.
RunTexts(run_at) ==
    Flat([j \in 1..(run_at[2] - run_at[1] + 1) |->
             InlineTexts(fin[run_at[1] + j - 1])])

\* The emitted elements that show a text of the run.
RunElements(run_at) ==
    UNION {Showing(RunTexts(run_at)[n]) : n \in 1..Len(RunTexts(run_at))}

\* C25: every maximal run of top-level nodes that are not block tags, with
\* an inline text that is not blank, is emitted as exactly one paragraph,
\* which holds the inline texts of the run, all of them and in order; the
\* paragraph is the last element when the run ends the document, and
\* otherwise it and its spacer are followed by exactly what the rest of the
\* document, from the next block on, is rendered to.
C25_RunIsOneParagraph ==
    fpc = "out" =>
        \A run_at \in Runs :
            RunTexts(run_at) # <<>> =>
                /\ Cardinality(RunElements(run_at)) = 1
                /\ \A i \in RunElements(run_at) :
                      /\ fout[i].type = "Paragraph"
                      /\ ParTexts(fout[i].content) = RunTexts(run_at)
                      /\ IF run_at[2] = Len(fin) THEN i = Len(fout)
                         ELSE /\ i < Len(fout)
                              /\ fout[i + 1] = Spacer(6)
                              /\ SubSeq(fout, i + 2, Len(fout))
                                    = html_to_pdf_elements(
                                          SubSeq(fin, run_at[2] + 1, Len(fin)))

\* A run of two nodes with a text each, flushed before a heading.
C25_Witness ==
    /\ fpc = "out" /\ Len(fin) = 3
    /\ <<1, 2>> \in Runs
    /\ InlineTexts(fin[1]) # <<>> /\ InlineTexts(fin[2]) # <<>>
    /\ fin[3].tag = "h1"
    /\ Len(fout) = 4

\* Every node of the document.
AllNodes ==
    UNION {{fin[k]} \cup Descendants(fin[k]) : k \in 1..Len(fin)}

\* The texts of the document that are not blank.
AllTexts == UNION {{LeafTexts(fin[k])[n] : n \in 1..Len(LeafTexts(fin[k]))} :
                      k \in 1..Len(fin)}

\* A block-level tag returns the empty markup, whatever the current style.
BlocksReturnNothing ==
    \A element \in AllNodes :
        element.tag \in BlockTags =>
            \A current_style \in {"", "strong", "li", "h1", "blockquote"} :
                process_element(element, current_style).ret = <<>>

\* No text of the input is shown by two emitted elements.
NoTextTwice == \A text \in AllTexts : Cardinality(Showing(text)) <= 1

\* C30: every block-level tag returns the empty string to its caller at any
\* depth, and each text of the input that is not blank is shown by exactly
\* one emitted element.
C30_EachTextInOneElement ==
    fpc = "out" =>
        /\ BlocksReturnNothing
        /\ \A text \in AllTexts : Cardinality(Showing(text)) = 1

\* The pieces of markup of an emitted element, those of the entries of a
\* list block included.
PiecesOf(e) ==
    IF e.type = "ListFlowable"
    THEN Flat([k \in 1..Len(e.items) |-> e.items[k].content])
    ELSE e.content

\* The characters that html.escape replaces.
MarkupChars == {"&", "<", ">"}

\* No character of the text of this piece could be read as markup.
Escaped(piece) == \A k \in 1..Len(piece.text) : piece.text[k] \notin MarkupChars

\* The same for the texts that process_element escapes itself.
TextPiecesEscaped ==
    \A i \in 1..Len(fout) : \A k \in 1..Len(PiecesOf(fout[i])) :
        PiecesOf(fout[i])[k].piece = "text" => Escaped(PiecesOf(fout[i])[k])

\* C31: every source text in the markup of an emitted element has been
\* HTML-escaped, under every kind of tag, code and pre included: the markup
\* holds none of the characters &, < and > of the source.
C31_SourceTextIsEscaped ==
    fpc = "out" =>
        \A i \in 1..Len(fout) : \A k \in 1..Len(PiecesOf(fout[i])) :
            Escaped(PiecesOf(fout[i])[k])

\* The texts of the document that are not blank, in document order.
DocTexts == Flat([k \in 1..Len(fin) |-> LeafTexts(fin[k])])

\* C35: the elements are emitted in document order: of two texts of the
\* input, the element that shows the earlier one is not placed after the
\* element that shows the later one, also when a block holds a text and
\* then a nested block.
C35_DocumentOrder ==
    fpc = "out" =>
        \A a, b \in 1..Len(DocTexts) :
            a < b =>
                \A i \in Showing(DocTexts[a]), j \in Showing(DocTexts[b]) : i <= j

\* The same for the documents in which no text is followed, inside its
\* block or its run, by a block-level tag.
FlatDocument ==
    \A k \in 1..Len(fin) :
        /\ ~HoldsBlock(fin[k])
        /\ fin[k].tag \in {"ul", "ol"} => IsList(fin[k])
OrderOfFlatDocuments ==
    (fpc = "out" /\ FlatDocument) =>
        \A a, b \in 1..Len(DocTexts) :
            a < b =>
                \A i \in Showing(DocTexts[a]), j \in Showing(DocTexts[b]) : i <= j

----------------------------------------------------------------------------
(* get_paginated_canvas_items over a listing of several pages *)

\* A listing is what the server would answer: a sequence of pages, each a
\* sequence of items, every page but the last with a next link.  failing
\* is the set of pages whose request raises a RequestException (a transport
\* error, or an error status at raise_for_status).
MaxPages == 3
MaxPerPage == 2

\* Item n of page k.
PageItems(k, count) == [n \in 1..count |-> <<k, n>>]

RECURSIVE fetch_all_or_nothing(_, _, _, _)
\* The mutant drops what it has when a request fails.
fetch_all_or_nothing(listing, failing, next_url, acc) ==
    IF next_url = 0 THEN acc
    ELSE IF next_url \in failing
    THEN [items |-> <<>>, requested |-> Append(acc.requested, next_url)]
    ELSE fetch_all_or_nothing(listing, failing,
                              IF next_url < Len(listing) THEN next_url + 1 ELSE 0,
                              [items |-> acc.items \o listing[next_url],
                               requested |-> Append(acc.requested, next_url)])

RECURSIVE fetch(_, _, _, _)
\* Lines 751-766: the loop.  next_url is the page the next request is for,
\* 0 for None; acc holds items and the requests made so far.
fetch(listing, failing, next_url, acc) ==
    IF next_url = 0 THEN acc
    ELSE IF next_url \in failing
    THEN [acc EXCEPT !.requested = Append(@, next_url)]
    ELSE fetch(listing, failing,
               IF next_url < Len(listing) THEN next_url + 1 ELSE 0,
               [items |-> acc.items \o listing[next_url],
                requested |-> Append(acc.requested, next_url)])

\* Lines 737-767.
paginated_items(listing, failing) ==
    fetch(listing, failing, 1, [items |-> <<>>, requested |-> <<>>])

PaginateInit ==
    /\ \E n \in 1..MaxPages : \E counts \in [1..n -> 0..MaxPerPage] :
          \E failing \in SUBSET (1..n) :
              fin = [listing |-> [k \in 1..n |-> PageItems(k, counts[k])],
                     failing |-> failing]
    /\ fout = <<>>
    /\ fpc = "in"
    /\ MainIdle

PaginateApply ==
    /\ fpc = "in"
    /\ fout' = paginated_items(fin.listing, fin.failing)
    /\ fpc' = "out"
    /\ UNCHANGED <<fin, mainvars>>

PaginateNext == PaginateApply

SpecPaginate == PaginateInit /\ [][PaginateNext]_vars

\* The number of pages fetched successfully: those before the first failing
\* one, or all of them.
Fetched ==
    IF fin.failing = {} THEN Len(fin.listing)
    ELSE (CHOOSE k \in fin.failing : \A j \in fin.failing : k <= j) - 1

\* C36: the pages are requested one at a time in the order of the next
\* links, up to the first request that fails or the first page without a
\* next link; the result is the concatenation, in order, of the items of
\* exactly the pages fetched before that point, so that after a failure on
\* a later page it is what a complete listing of those pages alone gives.
C36_PartialListingReturned ==
    fpc = "out" =>
        /\ fout.requested =
              [k \in 1..(IF Fetched < Len(fin.listing)
                         THEN Fetched + 1 ELSE Fetched) |-> k]
        /\ fout.items = Flat(SubSeq(fin.listing, 1, Fetched))
        /\ Fetched >= 1 =>
              fout.items = paginated_items(SubSeq(fin.listing, 1, Fetched), {}).items

\* The second page failed after a first page with items: the result is not
\* empty and not complete.
C36_Witness ==
    /\ fpc = "out"
    /\ Len(fin.listing) = 3 /\ fin.failing = {2}
    /\ fin.listing[3] # <<>>
    /\ fout.items = fin.listing[1] /\ fout.items # <<>>
====
